---- MODULE Spec2Model ----
(***************************************************************************)
(* The synchronization core of the collaborative whiteboard client:        *)
(* src/src/useCollaboration.js, lines 22-843 (the hook useCollaboration).  *)
(*                                                                         *)
(* core[c] holds the refs, timers, outstanding store calls and the local   *)
(* Excalidraw scene of the client whose identity is c; store is the        *)
(* document at canvas/scene.  Every handler of the hook is a pure operator *)
(* on one client's record, so that an action is the whole handler with     *)
(* every call it makes (flushPendingSave from a timer, from a promise's    *)
(* finally, from a page listener).                                         *)
(***************************************************************************)
EXTENDS Integers, Sequences, FiniteSets, TLC

VARIABLES core, store

vars == <<core, store>>

----------------------------------------------------------------------------
(* Bounds of the model *)

\* highest element.version an edit may produce
MaxVersion == 2

\* store writes of one client that may be outstanding together, and post-save
\* fetch timers of one client that may be armed together
MaxSaves == 2
MaxReads == 2

----------------------------------------------------------------------------
(* Program constants *)

\* const isStuck = elapsed > 5000
STUCK_THRESHOLD == 5000

\* setTimeout(..., 8000) and Date.now() - lastSaveStartedAtRef.current > 8000
WATCHDOG_DELAY == 8000

----------------------------------------------------------------------------
(* Identities and elements *)

Clients == {"A", "B"}

\* customData.createdBy and its companions when the field is absent
None == "none"

\* identity.username and identity.color of getOrCreateUserIdentity(); the
\* only caller of updateUserProfile (App.jsx) changes avatarUrl alone, and
\* the closure keeps the identity resolved by initialize
Username(u) == IF u = "A" THEN "alice" ELSE "bob"

Color(u) == IF u = "A" THEN "red" ELSE "blue"

\* An Excalidraw element, reduced to what the core reads or writes: id,
\* version, isDeleted and the three customData fields; x stands for the
\* rest of the element (geometry, points, ...) and names who last edited it.
Element(id, version, x, isDeleted, by, byName, byColor) ==
  [id |-> id, version |-> version, x |-> x, isDeleted |-> isDeleted,
   createdBy |-> by, createdByUsername |-> byName, createdByColor |-> byColor]

\* structuredClone / JSON clone: a deep copy, the same value
cloneElement(element) == element

cloneElements(elements) == [i \in 1..Len(elements) |-> cloneElement(elements[i])]

Ids(elements) == {elements[i].id : i \in 1..Len(elements)}

\* elements.find(el => el.id === id): the first element with that id
Find(elements, id) ==
  elements[CHOOSE i \in 1..Len(elements) :
             /\ elements[i].id = id
             /\ \A j \in 1..(i - 1) : elements[j].id # id]

\* excalidrawAPI.getSceneElements(): the scene without its deleted elements
getSceneElements(scene) == SelectSeq(scene, LAMBDA el : ~el.isDeleted)

----------------------------------------------------------------------------
(* Ownership *)

\* an assignOwnerMetadata that keeps the owner metadata an element carries
assignOwnerMetadata_KeepExisting(element, ownerId, userId) ==
  IF element.createdBy # None THEN element
  ELSE IF ownerId = userId
    THEN [element EXCEPT !.createdBy = ownerId,
                         !.createdByUsername = Username(userId),
                         !.createdByColor = Color(userId)]
    ELSE [element EXCEPT !.createdBy = ownerId]

\* assignOwnerMetadata(element, ownerId) in the closure of user userId
assignOwnerMetadata(element, ownerId, userId) ==
  IF ownerId = userId
    THEN [element EXCEPT !.createdBy = ownerId,
                         !.createdByUsername = Username(userId),
                         !.createdByColor = Color(userId)]
    ELSE [element EXCEPT !.createdBy = ownerId]

decorateElementWithOwner(element, userId) ==
  assignOwnerMetadata(cloneElement(element), userId, userId)

\* previousMap.get(id): forEach sets the entries in order, the last one wins
HasPrevEntry(previousElements, id) == id \in Ids(previousElements)

PrevEntry(previousElements, id) ==
  previousElements[CHOOSE i \in 1..Len(previousElements) :
                     /\ previousElements[i].id = id
                     /\ \A j \in (i + 1)..Len(previousElements) :
                          previousElements[j].id # id]

\* an ownership check that lets every identity through
MayPersist_Anyone(owner, userId, userIsAdmin) == TRUE

\* an ownership check without the admin override
MayPersist_OwnerOnly(owner, userId, userIsAdmin) == owner = None \/ owner = userId

\* if (userIsAdmin || !owner || owner === userId)
MayPersist(owner, userId, userIsAdmin) ==
  userIsAdmin \/ owner = None \/ owner = userId

\* the body of the for loop of handleChange for one element of the batch
AuthorizeElement(element, previousElements, userId, userIsAdmin) ==
  IF ~HasPrevEntry(previousElements, element.id)
    THEN assignOwnerMetadata(cloneElement(element), userId, userId)
    ELSE LET previousElement == PrevEntry(previousElements, element.id)
             owner == previousElement.createdBy
         IN  IF MayPersist(owner, userId, userIsAdmin)
               THEN assignOwnerMetadata(cloneElement(element),
                                        IF owner = None THEN userId ELSE owner,
                                        userId)
               ELSE assignOwnerMetadata(previousElement, owner, userId)

\* a deletion check that takes an element without owner for another's
DeletionBlocked_Unowned(prevElement, elements, userId, userIsAdmin) ==
  /\ prevElement.id \notin Ids(elements)
  /\ ~prevElement.isDeleted
  /\ prevElement.createdBy # userId
  /\ ~userIsAdmin

\* if (owner && owner !== userId && !userIsAdmin) authorizedElements.push(prevElement)
DeletionBlocked(prevElement, elements, userId, userIsAdmin) ==
  /\ prevElement.id \notin Ids(elements)
  /\ ~prevElement.isDeleted
  /\ prevElement.createdBy # None
  /\ prevElement.createdBy # userId
  /\ ~userIsAdmin

\* authorizedElements of handleChange
AuthorizedElements(elements, previousElements, userId, userIsAdmin) ==
  [i \in 1..Len(elements) |->
     AuthorizeElement(elements[i], previousElements, userId, userIsAdmin)]
  \o SelectSeq(previousElements,
               LAMBDA p : DeletionBlocked(p, elements, userId, userIsAdmin))

----------------------------------------------------------------------------
(* One client's state: the refs of the hook, its timers, its outstanding    *)
(* store calls and its Excalidraw scene                                     *)

InitCore(c) ==
  [pc |-> "start",                      \* position in initialize()/cleanup
   userId |-> c,                        \* identity.browserId
   isAdminRef |-> FALSE,
   adminMapRef |-> {},
   isLoaded |-> FALSE,
   hasLoadedInitialDataRef |-> FALSE,
   previousSceneRef |-> <<>>,           \* the Local Snapshot
   previousSceneSet |-> FALSE,          \* FALSE: previousSceneRef.current is null
   hasPendingSaveRef |-> FALSE,
   needsResaveRef |-> FALSE,
   isSavingRef |-> FALSE,
   isApplyingSceneUpdateRef |-> FALSE,
   isSyncingRef |-> FALSE,
   isFetchingCanvasRef |-> FALSE,
   isRefreshing |-> FALSE,              \* the state isRefreshing
   refreshCanvasSees |-> FALSE,         \* isRefreshing as the refreshCanvas of the
                                        \* last render has captured it
   refreshReads |-> 0,                  \* get() of refreshCanvas in flight
   appState |-> "white",                \* viewBackgroundColor of Excalidraw's appState
   lastAppStateRef |-> None,            \* the view state handleChange captured last
   fetchReason |-> "none",              \* reason of the get() in flight
   debounceSaveTimerRef |-> FALSE,      \* TRUE: the ref holds a timer id
   debounceTimers |-> 0,                \* the 500 ms timers that are armed
   canvasPollRef |-> FALSE,             \* TRUE: the poll interval is armed
   heartbeatRef |-> FALSE,              \* TRUE: the heartbeat interval is armed
   presenceRefRef |-> FALSE,            \* TRUE: presenceRefRef.current is set
   sessionRefRef |-> FALSE,             \* TRUE: sessionRefRef.current is set
   presence |-> FALSE,                  \* the store holds presence/users/<userId>
   session |-> "none",                  \* the store's record of this session:
                                        \* none, "open" (endedAt null) or "ended"
   presenceOnDisconnect |-> FALSE,      \* the server holds onDisconnect().remove()
   sessionOnDisconnect |-> FALSE,       \* the server holds onDisconnect().update()
   pendingFilesRef |-> {},              \* the ids of pendingFilesRef.current
   connected |-> TRUE,                  \* the connection to the store is up
   unmounted |-> FALSE,                 \* the cleanup of the effect has run
   flushPendingSaveRef |-> FALSE,       \* TRUE: flushPendingSaveRef.current is set
   guardTimers |-> 0,                   \* armed setTimeout(release guards, 500)
   postSaveTimers |-> 0,                \* armed setTimeout(post-save fetch, 100)
   watchdog |-> FALSE,                  \* the watchdog of the save holding the lock
   elapsed |-> 0,                       \* Date.now() - lastSaveStartedAtRef.current
   lastSavedAt |-> 0,                   \* 0: null; 1: the time of the latest
                                        \* write that succeeded
   forceReleased |-> FALSE,             \* history: the lock was force-released
   traced |-> FALSE,                    \* history: abandoned writes are marked
   quiet |-> 0,                         \* history: changes of the quiet run
   ingested |-> <<>>,                   \* history: the snapshot of the last ingest
   writes |-> {},                       \* set(canvasRef, ...) not yet settled; each
                                        \* with history: a change came meanwhile
   scene |-> <<>>]                      \* the elements Excalidraw holds

\* History variables (they guard nothing).  forceReleased: the stuck-lock
\* release or the watchdog has released the lock at least once.  quiet > 0:
\* the debounce timer is armed and, since the first change of the run of
\* changes that armed it, no write was outstanding, no forced flush was requested
\* and no remote snapshot was applied; quiet is then the number of changes of
\* the run (2 stands for two or more).  ingested: the Local Snapshot the last ingested
\* change produced.  dirty (of a write): a change was ingested after the write
\* was issued.  abandoned (of a write): the lock the write's save held was
\* force-released while the write was outstanding; the mark is kept only by a
\* core whose traced is set (SpecAbandon), the other specifications do not
\* tell such a write from one whose save holds the lock.

\* An id for the next write: the least one no outstanding write of this
\* client carries
NewSaveId(r) ==
  LET used == {w.id : w \in r.writes}
  IN  CHOOSE n \in 1..(Cardinality(used) + 1) :
        /\ n \notin used
        /\ \A m \in 1..(n - 1) : m \in used

\* JSON.stringify of an element's customData: the keys that are present
customDataJSON(element) ==
  {<<"createdBy", element.createdBy>>,
   <<"createdByUsername", element.createdByUsername>>,
   <<"createdByColor", element.createdByColor>>} \ {<<key, None>> : key \in
     {"createdBy", "createdByUsername", "createdByColor"}}

\* JSON.stringify(sceneData): the elements in order, each with its fields
sceneJSON(elements) ==
  [i \in 1..Len(elements) |->
     <<elements[i].id, elements[i].version, elements[i].x, elements[i].isDeleted,
       customDataJSON(elements[i])>>]

\* customData?.[key] of a parsed element
customDataField(customData, key) ==
  IF \E pair \in customData : pair[1] = key
    THEN (CHOOSE pair \in customData : pair[1] = key)[2]
    ELSE None

\* the elements of JSON.parse(sceneJSON)
JSONparse(json) ==
  [i \in 1..Len(json) |->
     Element(json[i][1], json[i][2], json[i][3], json[i][4],
             customDataField(json[i][5], "createdBy"),
             customDataField(json[i][5], "createdByUsername"),
             customDataField(json[i][5], "createdByColor"))]

\* JSON.stringify(allFiles): one entry per file id, with its descriptor
filesJSON(files) == {<<fileId, "dataURL">> : fileId \in files}

\* Object.keys(JSON.parse(data.files))
FileIds(json) == {entry[1] : entry \in json}

\* JSON.parse(json) returns: the text is not cut off inside an element
Parses(json) == \A i \in 1..Len(json) : Len(json[i]) = 5

\* a save that leaves the debounce timer armed
StartSave_KeepTimer(r) ==
  LET id == NewSaveId(r)
      sceneElements == IF r.previousSceneSet
                         THEN cloneElements(r.previousSceneRef)
                         ELSE cloneElements(getSceneElements(r.scene))
  IN  [r EXCEPT !.debounceSaveTimerRef = FALSE,
                !.isSavingRef = TRUE,
                !.elapsed = 0,
                !.hasPendingSaveRef = FALSE,
                !.needsResaveRef = FALSE,
                !.writes = @ \cup {[id |-> id,
                                     sceneJSON |-> sceneJSON(sceneElements),
                                     files |-> filesJSON(r.pendingFilesRef),
                                     dirty |-> FALSE,
                                     abandoned |-> FALSE]},
                !.watchdog = TRUE,
                !.quiet = 0]

\* the part of flushPendingSave after the guards (lines 411-511): the save
StartSave(r) ==
  LET id == NewSaveId(r)
      sceneElements == IF r.previousSceneSet
                         THEN cloneElements(r.previousSceneRef)
                         ELSE cloneElements(getSceneElements(r.scene))
  IN  [r EXCEPT !.debounceSaveTimerRef = FALSE,
                !.debounceTimers = IF r.debounceSaveTimerRef THEN @ - 1 ELSE @,
                !.isSavingRef = TRUE,
                !.elapsed = 0,
                !.hasPendingSaveRef = FALSE,
                !.needsResaveRef = FALSE,
                !.writes = @ \cup {[id |-> id,
                                     sceneJSON |-> sceneJSON(sceneElements),
                                     files |-> filesJSON(r.pendingFilesRef),
                                     dirty |-> FALSE,
                                     abandoned |-> FALSE]},
                !.watchdog = TRUE,
                !.quiet = 0]

\* the stuck-lock release of flushPendingSave (lines 388-393)
ReleaseStuckLock(r) ==
  [r EXCEPT !.isSavingRef = FALSE,
            !.hasPendingSaveRef = TRUE,
            !.watchdog = FALSE,
            !.forceReleased = TRUE,
            !.writes = IF r.traced THEN {[w EXCEPT !.abandoned = TRUE] : w \in @}
                       ELSE @]

\* flushPendingSave without its lock: a request made while a save is in flight
\* starts another one
flushPendingSave_NoLock(r, allowRetry) ==
  IF ~(r.hasPendingSaveRef \/ r.needsResaveRef) THEN r
  ELSE IF ~r.isSavingRef /\ r.isApplyingSceneUpdateRef
    THEN [r EXCEPT !.needsResaveRef = TRUE]
  ELSE StartSave(r)

\* flushPendingSave that takes every request as one that allows a retry
flushPendingSave_AlwaysRetry(r, allowRetry) ==
  LET isStuck == r.elapsed > STUCK_THRESHOLD
      deferred == [r EXCEPT !.needsResaveRef = TRUE]
      r1 == IF r.isSavingRef THEN ReleaseStuckLock(r) ELSE r
  IN  IF r.isSavingRef /\ ~isStuck THEN deferred
      ELSE IF ~r.isSavingRef /\ r.isApplyingSceneUpdateRef THEN deferred
      ELSE IF ~r1.hasPendingSaveRef /\ ~r1.needsResaveRef THEN r1
      ELSE StartSave(r1)

\* flushPendingSave that takes a save for stuck once its watchdog is overdue
flushPendingSave_StuckAtWatchdog(r, allowRetry) ==
  LET hasPending == r.hasPendingSaveRef \/ r.needsResaveRef
      isStuck == r.elapsed > WATCHDOG_DELAY
      deferred == [r EXCEPT !.needsResaveRef = TRUE]
      r1 == IF r.isSavingRef THEN ReleaseStuckLock(r) ELSE r
  IN  IF ~hasPending /\ ~allowRetry THEN r
      ELSE IF r.isSavingRef /\ ~isStuck THEN deferred
      ELSE IF ~r.isSavingRef /\ r.isApplyingSceneUpdateRef THEN deferred
      ELSE IF ~r1.hasPendingSaveRef /\ ~r1.needsResaveRef THEN r1
      ELSE StartSave(r1)

\* flushPendingSave({ reason, allowRetry })
flushPendingSave(r, allowRetry) ==
  LET hasPending == r.hasPendingSaveRef \/ r.needsResaveRef
      isStuck == r.elapsed > STUCK_THRESHOLD
      deferred == [r EXCEPT !.needsResaveRef = TRUE]
      r1 == IF r.isSavingRef THEN ReleaseStuckLock(r) ELSE r
  IN  IF ~hasPending /\ ~allowRetry THEN r
      ELSE IF r.isSavingRef /\ ~isStuck THEN deferred
      ELSE IF ~r.isSavingRef /\ r.isApplyingSceneUpdateRef THEN deferred
      ELSE IF ~r1.hasPendingSaveRef /\ ~r1.needsResaveRef THEN r1
      ELSE StartSave(r1)

\* a forced flush: flushPendingSave({ reason, allowRetry: false }) from a page
\* listener or from saveChanges
ForcedFlush(r) == flushPendingSave([r EXCEPT !.quiet = 0], FALSE)

\* the .finally of the save promise (lines 485-493)
SaveFinally(r) ==
  LET shouldResave == r.needsResaveRef
      r1 == [r EXCEPT !.isSavingRef = FALSE,
                      !.needsResaveRef = FALSE,
                      !.watchdog = FALSE]
  IN  IF shouldResave THEN flushPendingSave(r1, FALSE) ELSE r1

\* the .then of the save promise (lines 465-478), then its .finally
SaveThen(r, w) ==
  SaveFinally([r EXCEPT !.writes = @ \ {w},
                        !.lastSavedAt = 1,
                        !.postSaveTimers = @ + 1])

\* a .catch that leaves the pending flag as the save's start left it
SaveCatch_Forget(r, w) == SaveFinally([r EXCEPT !.writes = @ \ {w}])

\* the .catch of the save promise (lines 479-484), then its .finally
SaveCatch(r, w) ==
  SaveFinally([r EXCEPT !.writes = @ \ {w}, !.hasPendingSaveRef = TRUE])

\* the watchdog callback (lines 496-509)
Watchdog(r) ==
  LET r0 == [r EXCEPT !.watchdog = FALSE]
      shouldResave == r0.needsResaveRef
      r1 == [r0 EXCEPT !.isSavingRef = FALSE,
                       !.hasPendingSaveRef = TRUE,
                       !.needsResaveRef = FALSE,
                       !.forceReleased = TRUE,
                       !.writes = IF r.traced
                                    THEN {[w EXCEPT !.abandoned = TRUE] : w \in @}
                                    ELSE @]
  IN  IF r0.isSavingRef /\ r0.elapsed > WATCHDOG_DELAY
        THEN IF shouldResave THEN flushPendingSave(r1, FALSE) ELSE r1
        ELSE r0

\* a handleChange that puts the authorized elements back into the scene
handleChange_Restoring(r, elements) ==
  IF ~r.hasLoadedInitialDataRef THEN r
  ELSE IF r.isApplyingSceneUpdateRef THEN r
  ELSE
    LET previousElements == IF r.previousSceneSet THEN r.previousSceneRef ELSE <<>>
        authorizedElements ==
          AuthorizedElements(elements, previousElements, r.userId, r.isAdminRef)
    IN  [r EXCEPT !.scene = authorizedElements,
                  !.previousSceneRef = cloneElements(authorizedElements),
                  !.previousSceneSet = TRUE,
                  !.lastAppStateRef = r.appState,
                  !.hasPendingSaveRef = TRUE,
                  !.needsResaveRef = IF r.isSavingRef THEN TRUE ELSE @,
                  !.debounceSaveTimerRef = TRUE,
                  !.debounceTimers = (IF r.debounceSaveTimerRef THEN @ - 1 ELSE @) + 1,
                  !.quiet = IF r.writes # {} THEN 0
                           ELSE IF ~r.debounceSaveTimerRef THEN 1
                           ELSE IF @ > 0 THEN 2
                           ELSE 0,
                  !.ingested = cloneElements(authorizedElements),
                  !.writes = {[w EXCEPT !.dirty = TRUE] : w \in @}]

\* a handleChange that takes in the notifications of remote applications too
handleChange_Unguarded(r, elements) ==
  IF ~r.hasLoadedInitialDataRef THEN r
  ELSE
    LET previousElements == IF r.previousSceneSet THEN r.previousSceneRef ELSE <<>>
        authorizedElements ==
          AuthorizedElements(elements, previousElements, r.userId, r.isAdminRef)
    IN  [r EXCEPT !.previousSceneRef = cloneElements(authorizedElements),
                  !.previousSceneSet = TRUE,
                  !.lastAppStateRef = r.appState,
                  !.hasPendingSaveRef = TRUE,
                  !.needsResaveRef = IF r.isSavingRef THEN TRUE ELSE @,
                  !.debounceSaveTimerRef = TRUE,
                  !.debounceTimers = (IF r.debounceSaveTimerRef THEN @ - 1 ELSE @) + 1,
                  !.quiet = IF r.writes # {} THEN 0
                           ELSE IF ~r.debounceSaveTimerRef THEN 1
                           ELSE IF @ > 0 THEN 2
                           ELSE 0,
                  !.ingested = cloneElements(authorizedElements),
                  !.writes = {[w EXCEPT !.dirty = TRUE] : w \in @}]

\* handleChange(elements, appState) (lines 530-619)
handleChange(r, elements) ==
  IF ~r.hasLoadedInitialDataRef THEN r
  ELSE IF r.isApplyingSceneUpdateRef THEN r
  ELSE
    LET previousElements == IF r.previousSceneSet THEN r.previousSceneRef ELSE <<>>
        authorizedElements ==
          AuthorizedElements(elements, previousElements, r.userId, r.isAdminRef)
    IN  [r EXCEPT !.previousSceneRef = cloneElements(authorizedElements),
                  !.previousSceneSet = TRUE,
                  !.lastAppStateRef = r.appState,
                  !.hasPendingSaveRef = TRUE,
                  !.needsResaveRef = IF r.isSavingRef THEN TRUE ELSE @,
                  !.debounceSaveTimerRef = TRUE,
                  !.debounceTimers = (IF r.debounceSaveTimerRef THEN @ - 1 ELSE @) + 1,
                  !.quiet = IF r.writes # {} THEN 0
                           ELSE IF ~r.debounceSaveTimerRef THEN 1
                           ELSE IF @ > 0 THEN 2
                           ELSE 0,
                  !.ingested = cloneElements(authorizedElements),
                  !.writes = {[w EXCEPT !.dirty = TRUE] : w \in @}]

\* a debounce callback that saves nothing
DebounceCallback_Idle(r) ==
  [r EXCEPT !.debounceSaveTimerRef = FALSE, !.debounceTimers = @ - 1,
            !.quiet = 0]

\* the callback of the debounce timer (lines 611-618)
DebounceCallback(r) ==
  LET r1 == [r EXCEPT !.debounceSaveTimerRef = FALSE, !.debounceTimers = @ - 1,
                      !.quiet = 0]
  IN  IF r1.flushPendingSaveRef /\ r1.hasPendingSaveRef /\ ~r1.isSavingRef
        THEN flushPendingSave(r1, TRUE)
        ELSE r1

----------------------------------------------------------------------------
(* Remote change ingest *)

\* the document at canvas/scene: canvasData of flushPendingSave, or nothing
NoDocument ==
  [exists |-> FALSE, sceneJSON |-> <<>>, files |-> {}, updatedBy |-> None]

\* canvasData with its files (lines 449-454)
DocumentWithFiles(json, files, userId) ==
  [exists |-> TRUE, sceneJSON |-> json, files |-> files, updatedBy |-> userId]

\* canvasData of a save with no file
Document(json, userId) == DocumentWithFiles(json, filesJSON({}), userId)

\* a document whose sceneJSON is cut off inside its first element
CorruptDocument == Document(<< <<"e1">> >>, None)

\* the elements of sceneData = JSON.parse(data.sceneJSON)
SceneElements(data) == JSONparse(data.sceneJSON)

\* a merge that keeps the local element at equal versions too
MergeElement_LocalOnTie(fbElement, currentCanvasElements) ==
  IF /\ fbElement.id \in Ids(currentCanvasElements)
     /\ Find(currentCanvasElements, fbElement.id).version >= fbElement.version
    THEN Find(currentCanvasElements, fbElement.id)
    ELSE fbElement

\* the merge of fetchCanvasState under a pending save (lines 278-306)
MergeElement(fbElement, currentCanvasElements) ==
  IF /\ fbElement.id \in Ids(currentCanvasElements)
     /\ Find(currentCanvasElements, fbElement.id).version > fbElement.version
    THEN Find(currentCanvasElements, fbElement.id)
    ELSE fbElement

\* a merge that renders the elements of the remote document only
MergedElements_RemoteOnly(firebaseElements, currentCanvasElements, userId) ==
  [i \in 1..Len(firebaseElements) |->
     MergeElement(firebaseElements[i], currentCanvasElements)]

MergedElements(firebaseElements, currentCanvasElements, userId) ==
  LET localOnlyElements ==
        SelectSeq(currentCanvasElements,
                  LAMBDA el : el.id \notin Ids(firebaseElements))
  IN  [i \in 1..Len(firebaseElements) |->
         MergeElement(firebaseElements[i], currentCanvasElements)]
      \o [i \in 1..Len(localOnlyElements) |->
            decorateElementWithOwner(localOnlyElements[i], userId)]

\* fetchCanvasState that polls whatever is pending
SkipPoll_Never(r, reason) == FALSE

\* fetchCanvasState(reason) up to its await get(canvasRef) (lines 224-243)
SkipPoll(r, reason) == reason = "poll" /\ r.hasPendingSaveRef

FetchStart(r, reason) ==
  IF r.isFetchingCanvasRef THEN r
  ELSE IF SkipPoll(r, reason) THEN r
  ELSE [r EXCEPT !.isFetchingCanvasRef = TRUE, !.fetchReason = reason]

\* the elements fetchCanvasState renders (lines 279-306)
ElementsToRender(r, data) ==
  IF r.hasPendingSaveRef
    THEN MergedElements(SceneElements(data), getSceneElements(r.scene), r.userId)
    ELSE SceneElements(data)

\* a fetch that takes the missing document for a failed read
FetchApply_MissingIsError(r, data) ==
  LET done == [r EXCEPT !.isFetchingCanvasRef = FALSE, !.fetchReason = "none"]
  IN  IF data.exists /\ ~r.isSyncingRef
        THEN [done EXCEPT !.quiet = 0,
                          !.isSyncingRef = TRUE,
                          !.isApplyingSceneUpdateRef = TRUE,
                          !.scene = ElementsToRender(r, data),
                          !.previousSceneRef = cloneElements(ElementsToRender(r, data)),
                          !.previousSceneSet = TRUE,
                          !.guardTimers = @ + 1,
                          !.pendingFilesRef = @ \cup FileIds(data.files),
                          !.isLoaded = TRUE,
                          !.hasLoadedInitialDataRef = TRUE]
      ELSE done

\* the catch of fetchCanvasState around JSON.parse and updateScene (lines
\* 328-333)
FetchParseError(r) ==
  [r EXCEPT !.hasLoadedInitialDataRef = TRUE,
            !.isSyncingRef = FALSE,
            !.isApplyingSceneUpdateRef = FALSE]

\* fetchCanvasState after get(canvasRef) has resolved with data (lines 244-346)
FetchApply(r, data) ==
  LET done == [r EXCEPT !.isFetchingCanvasRef = FALSE, !.fetchReason = "none"]
  IN  IF data.exists /\ ~r.isSyncingRef /\ ~Parses(data.sceneJSON)
        THEN FetchParseError(done)
      ELSE IF data.exists /\ ~r.isSyncingRef
        THEN [done EXCEPT !.quiet = 0,
                          !.isSyncingRef = TRUE,
                          !.isApplyingSceneUpdateRef = TRUE,
                          !.scene = ElementsToRender(r, data),
                          !.previousSceneRef = cloneElements(ElementsToRender(r, data)),
                          !.previousSceneSet = TRUE,
                          !.guardTimers = @ + 1,
                          !.pendingFilesRef = @ \cup FileIds(data.files),
                          !.isLoaded = TRUE,
                          !.hasLoadedInitialDataRef = TRUE]
      ELSE IF ~data.exists
        THEN [done EXCEPT !.isLoaded = TRUE, !.hasLoadedInitialDataRef = TRUE]
      ELSE done

\* fetchCanvasState after get(canvasRef) has rejected (lines 341-345)
FetchError(r) ==
  [r EXCEPT !.isFetchingCanvasRef = FALSE, !.fetchReason = "none"]

\* the callback of setTimeout(..., 500) of fetchCanvasState (lines 318-321)
ReleaseGuards(r) ==
  [r EXCEPT !.isSyncingRef = FALSE,
            !.isApplyingSceneUpdateRef = FALSE,
            !.guardTimers = @ - 1]

\* the callback of setTimeout(..., 100) of the save's .then (lines 470-477)
PostSaveCallback(r) ==
  LET r1 == [r EXCEPT !.postSaveTimers = @ - 1]
  IN  IF ~r1.hasPendingSaveRef /\ ~r1.isSavingRef
        THEN FetchStart(r1, "post-save")
        ELSE r1

\* refreshCanvas() up to its await get(canvasRef) (lines 782-791).  The
\* callback reads the isRefreshing of the render that built it (useCallback
\* with [excalidrawAPI, isRefreshing], line 826)
RefreshStart(r) ==
  IF r.refreshCanvasSees THEN r
  ELSE [r EXCEPT !.isRefreshing = TRUE, !.refreshReads = @ + 1]

\* refreshCanvas() after get(canvasRef) has resolved with data (lines 793-825):
\* updateScene, whose change notification Excalidraw passes to handleChange
\* while the change listener is subscribed
RefreshApply(r, data) ==
  LET done == [r EXCEPT !.isRefreshing = FALSE, !.refreshReads = @ - 1]
      rendered == [done EXCEPT !.scene = SceneElements(data)]
  IN  IF ~data.exists THEN done
      ELSE IF ~Parses(data.sceneJSON) THEN done
      ELSE IF r.pc = "ready" THEN handleChange(rendered, SceneElements(data))
      ELSE rendered

\* refreshCanvas() after get(canvasRef) has rejected (lines 820-825)
RefreshError(r) == [r EXCEPT !.isRefreshing = FALSE, !.refreshReads = @ - 1]

\* React renders the hook again after setIsRefreshing: useCallback builds a
\* refreshCanvas that sees the new state (lines 780, 826)
RenderRefreshCanvas(r) == [r EXCEPT !.refreshCanvasSees = r.isRefreshing]

\* setupPresence() (lines 157-171)
setupPresence(r) ==
  [r EXCEPT !.presence = TRUE,
            !.presenceOnDisconnect = TRUE,
            !.presenceRefRef = TRUE]

\* startSession() (lines 173-192)
startSession(r) ==
  [r EXCEPT !.sessionRefRef = TRUE,
            !.session = "open",
            !.sessionOnDisconnect = TRUE]

\* sendHeartbeat() (lines 194-209): update() writes the fields it is given,
\* also where the record has been removed, and endedAt: null removes the end
\* time
sendHeartbeat(r) ==
  [r EXCEPT !.presence = TRUE,
            !.session = IF r.sessionRefRef THEN "open" ELSE @]

\* initialize() from setupPresence() to the heartbeat interval (lines 211-214)
StartPresence(r) ==
  [sendHeartbeat(startSession(setupPresence(r))) EXCEPT !.heartbeatRef = TRUE]

\* initialize() after await fetchCanvasState('initial') (lines 351-357, 526-528,
\* 621-623): the poll interval, the page listeners, the change listener
FinishInitialize(r) ==
  [r EXCEPT !.pc = "ready", !.canvasPollRef = TRUE, !.flushPendingSaveRef = TRUE]

\* the cleanup function initialize() returns (lines 625-668)
CleanupFn(r) ==
  LET r1 == [r EXCEPT !.debounceSaveTimerRef = FALSE,
                      !.debounceTimers = IF r.debounceSaveTimerRef THEN @ - 1 ELSE @,
                      !.quiet = 0]
      r2 == IF r1.hasPendingSaveRef THEN flushPendingSave(r1, TRUE) ELSE r1
  IN  [r2 EXCEPT !.pc = "tornDown",
                 !.heartbeatRef = FALSE,
                 !.session = IF r.sessionRefRef THEN "ended" ELSE @,
                 !.sessionRefRef = FALSE,
                 !.presenceRefRef = FALSE,
                 !.presence = FALSE,
                 !.canvasPollRef = FALSE,
                 !.flushPendingSaveRef = FALSE]

----------------------------------------------------------------------------
(* What the user does to the scene: the batches Excalidraw's onChange passes *)

\* a new element: Excalidraw gives it no customData; a duplicated or pasted
\* one carries the customData of its original
NewElement(id, c, by) ==
  IF by = None
    THEN Element(id, 1, c, FALSE, None, None, None)
    ELSE Element(id, 1, c, FALSE, by, Username(by), Color(by))

RemoveAt(seq, i) == [j \in 1..(Len(seq) - 1) |-> IF j < i THEN seq[j] ELSE seq[j + 1]]

Created(scene, c, ids, owners) ==
  {Append(scene, NewElement(id, c, by)) : id \in ids \ Ids(scene), by \in owners}

Modified(scene, c) ==
  {[scene EXCEPT ![i].version = @ + 1, ![i].x = c] :
     i \in {j \in 1..Len(scene) : scene[j].version < MaxVersion}}

SoftDeleted(scene, c) ==
  {[scene EXCEPT ![i].version = @ + 1, ![i].isDeleted = TRUE] :
     i \in {j \in 1..Len(scene) : scene[j].version < MaxVersion /\ ~scene[j].isDeleted}}

Removed(scene) == {RemoveAt(scene, i) : i \in 1..Len(scene)}

----------------------------------------------------------------------------
(* Actions: one per handler, timer callback or promise settlement *)

WithinBounds(r) ==
  /\ Cardinality(r.writes) <= MaxSaves
  /\ r.postSaveTimers <= MaxSaves
  /\ r.refreshReads <= MaxReads

Step(c, r) ==
  /\ WithinBounds(r)
  /\ core' = [core EXCEPT ![c] = r]

\* initialize() up to await fetchCanvasState('initial') (lines 124-349)
Initialize(c) ==
  /\ core[c].pc = "start"
  /\ LET r == FetchStart(StartPresence([core[c] EXCEPT
                                          !.isAdminRef = (c \in core[c].adminMapRef)]),
                         "initial")
     IN  Step(c, IF r.fetchReason = "initial"
                   THEN [r EXCEPT !.pc = "initializing"]
                   ELSE FinishInitialize(r))
  /\ UNCHANGED store

\* get(canvasRef) resolves with the document the store holds
FetchResolved(c) ==
  /\ core[c].isFetchingCanvasRef
  /\ LET r == FetchApply(core[c], store)
     IN  Step(c, IF core[c].fetchReason = "initial" THEN FinishInitialize(r) ELSE r)
  /\ UNCHANGED store

\* get(canvasRef) rejects
FetchRejected(c) ==
  /\ core[c].isFetchingCanvasRef
  /\ LET r == FetchError(core[c])
     IN  Step(c, IF core[c].fetchReason = "initial" THEN FinishInitialize(r) ELSE r)
  /\ UNCHANGED store

\* the poll interval fires (lines 352-356)
PollTick(c) ==
  /\ core[c].canvasPollRef
  /\ Step(c, FetchStart(core[c], "poll"))
  /\ UNCHANGED store

PostSaveTimerFired(c) ==
  /\ core[c].postSaveTimers > 0
  /\ Step(c, PostSaveCallback(core[c]))
  /\ UNCHANGED store

GuardTimerFired(c) ==
  /\ core[c].guardTimers > 0
  /\ Step(c, ReleaseGuards(core[c]))
  /\ UNCHANGED store

\* the user changes the scene to `elements`; Excalidraw calls handleChange
OnChange(c, elements) ==
  /\ core[c].pc = "ready"
  /\ Step(c, handleChange([core[c] EXCEPT !.scene = elements], elements))
  /\ UNCHANGED store

\* the user changes the canvas background to `colour`; Excalidraw calls
\* handleChange with the elements as they are and the new appState
ChangeView(c, colour) ==
  /\ core[c].pc = "ready"
  /\ colour # core[c].appState
  /\ Step(c, handleChange([core[c] EXCEPT !.appState = colour], core[c].scene))
  /\ UNCHANGED store

DebounceTimerFired(c) ==
  /\ core[c].debounceTimers > 0
  /\ Step(c, DebounceCallback(core[c]))
  /\ UNCHANGED store

\* handleVisibilityChange with document.visibilityState === 'hidden'
HandleVisibilityChange(c) ==
  /\ core[c].pc = "ready"
  /\ Step(c, IF core[c].hasPendingSaveRef THEN ForcedFlush(core[c]) ELSE core[c])
  /\ UNCHANGED store

\* handlePageHide, on pagehide and on beforeunload
HandlePageHide(c) ==
  /\ core[c].pc = "ready"
  /\ Step(c, IF core[c].hasPendingSaveRef THEN ForcedFlush(core[c]) ELSE core[c])
  /\ UNCHANGED store

\* saveChanges(reason): the manual save (lines 769-778)
SaveChanges(c) ==
  /\ core[c].pc \in {"ready", "tornDown"}
  /\ Step(c, IF core[c].flushPendingSaveRef THEN ForcedFlush(core[c]) ELSE core[c])
  /\ UNCHANGED store

\* set(canvasRef, canvasData) resolves: the store holds the write
WriteSucceeded(c, w) ==
  /\ w \in core[c].writes
  /\ Step(c, SaveThen(core[c], w))
  /\ store' = DocumentWithFiles(w.sceneJSON, w.files, c)

\* set(canvasRef, canvasData) rejects
WriteFailed(c, w) ==
  /\ w \in core[c].writes
  /\ Step(c, SaveCatch(core[c], w))
  /\ UNCHANGED store

\* The watchdog timer of the save that holds the lock fires, 8000 ms after
\* that save's start or later.  A watchdog callback that finds isSavingRef
\* false does nothing, and the callback of an earlier save's timer runs before
\* the latest save's (timers of equal delay run in the order they were set),
\* so it finds elapsed <= 8000 or does what the latest's would do next: only
\* the timer of the save holding the lock is kept.
WatchdogFired(c) ==
  /\ core[c].watchdog
  /\ core[c].isSavingRef
  /\ core[c].elapsed >= WATCHDOG_DELAY
  /\ Step(c, Watchdog(core[c]))
  /\ UNCHANGED store

\* time passes: Date.now() - lastSaveStartedAtRef.current crosses a threshold
\* (the value is read only while isSavingRef is set)
ElapsedAfter(elapsed) ==
  IF elapsed <= STUCK_THRESHOLD THEN STUCK_THRESHOLD + 1
  ELSE IF elapsed < WATCHDOG_DELAY THEN WATCHDOG_DELAY
  ELSE WATCHDOG_DELAY + 1

AdvanceTime(c) ==
  /\ core[c].isSavingRef
  /\ core[c].elapsed <= WATCHDOG_DELAY
  /\ Step(c, [core[c] EXCEPT !.elapsed = ElapsedAfter(@)])
  /\ UNCHANGED store

\* an admin subscription that stores the map and leaves isAdminRef alone
OnAdminsValue_MapOnly(c, adminMap) ==
  /\ adminMap # core[c].adminMapRef
  /\ Step(c, [core[c] EXCEPT !.adminMapRef = adminMap])
  /\ UNCHANGED store

\* the onValue callback of roles/admins delivers the admin map (lines 85-94)
OnAdminsValue(c, adminMap) ==
  /\ adminMap # core[c].adminMapRef
  /\ Step(c, [core[c] EXCEPT !.adminMapRef = adminMap,
                             !.isAdminRef = (core[c].pc # "start" /\ c \in adminMap)])
  /\ UNCHANGED store

\* the user asks for a manual refresh
RefreshCanvas(c) ==
  /\ core[c].pc = "ready"
  /\ Step(c, RefreshStart(core[c]))
  /\ UNCHANGED store

\* the render React has scheduled for a change of isRefreshing takes place
Rerender(c) ==
  /\ core[c].refreshCanvasSees # core[c].isRefreshing
  /\ Step(c, RenderRefreshCanvas(core[c]))
  /\ UNCHANGED store

\* the get(canvasRef) of refreshCanvas resolves with the document the store holds
RefreshResolved(c) ==
  /\ core[c].refreshReads > 0
  /\ Step(c, RefreshApply(core[c], store))
  /\ UNCHANGED store

\* the get(canvasRef) of refreshCanvas rejects
RefreshRejected(c) ==
  /\ core[c].refreshReads > 0
  /\ Step(c, RefreshError(core[c]))
  /\ UNCHANGED store

\* the image upload of App.jsx (lines 95-140): the descriptor goes into
\* pendingFilesRef and updateScene adds the image element, whose change
\* notification Excalidraw passes to handleChange
UploadImage(c, fileId) ==
  /\ core[c].pc = "ready"
  /\ fileId \notin Ids(core[c].scene)
  /\ LET elements == Append(getSceneElements(core[c].scene), NewElement(fileId, c, None))
     IN  Step(c, handleChange([core[c] EXCEPT !.pendingFilesRef = @ \cup {fileId},
                                             !.scene = elements],
                              elements))
  /\ UNCHANGED store

\* the effect's cleanup runs the cleanup function of initialize()
Cleanup(c) ==
  /\ core[c].pc = "ready"
  /\ ~core[c].unmounted
  /\ Step(c, [CleanupFn(core[c]) EXCEPT !.unmounted = TRUE])
  /\ UNCHANGED store

\* the effect's cleanup runs before initialize() has resolved: `cleanup` is
\* still undefined and nothing is called (lines 671-679)
CleanupBeforeReady(c) ==
  /\ core[c].pc = "initializing"
  /\ ~core[c].unmounted
  /\ Step(c, [core[c] EXCEPT !.unmounted = TRUE])
  /\ UNCHANGED store

\* the heartbeat interval fires (line 214); the update reaches the store while
\* the connection is up
HeartbeatTick(c) ==
  /\ core[c].heartbeatRef
  /\ core[c].connected
  /\ Step(c, sendHeartbeat(core[c]))
  /\ UNCHANGED store

\* the connection of client c to the store is lost without a teardown: the
\* server runs the operations registered with onDisconnect(), once
Disconnect(c) ==
  /\ core[c].pc # "start"
  /\ core[c].connected
  /\ Step(c, [core[c] EXCEPT
                 !.connected = FALSE,
                 !.presence = IF core[c].presenceOnDisconnect THEN FALSE ELSE @,
                 !.presenceOnDisconnect = FALSE,
                 !.session = IF core[c].sessionOnDisconnect /\ @ # "none"
                               THEN "ended" ELSE @,
                 !.sessionOnDisconnect = FALSE])
  /\ UNCHANGED store

\* the client, still running, gets its connection back
Reconnect(c) ==
  /\ ~core[c].connected
  /\ Step(c, [core[c] EXCEPT !.connected = TRUE])
  /\ UNCHANGED store

\* another client, whose core is not modelled in this specification, writes
\* the document it has composed
PeerWrite(p, elements) ==
  /\ store' = Document(sceneJSON(elements), p)
  /\ store' # store
  /\ UNCHANGED core

----------------------------------------------------------------------------
(* Spec: the save scheduler and the remote ingest of one client *)

\* the client whose core runs
Self == "A"

\* the batches of Spec: the user draws one element and edits it
SchedulerEdits(scene, c) ==
  {scene} \cup Created(scene, c, {"e1"}, {None}) \cup Modified(scene, c)

Init ==
  /\ core = [c \in {Self} |-> InitCore(c)]
  /\ store = NoDocument

Next ==
  \/ Initialize(Self)
  \/ FetchResolved(Self)
  \/ FetchRejected(Self)
  \/ PollTick(Self)
  \/ PostSaveTimerFired(Self)
  \/ GuardTimerFired(Self)
  \/ \E elements \in SchedulerEdits(core[Self].scene, Self) : OnChange(Self, elements)
  \/ DebounceTimerFired(Self)
  \/ HandleVisibilityChange(Self)
  \/ HandlePageHide(Self)
  \/ SaveChanges(Self)
  \/ \E w \in core[Self].writes : WriteSucceeded(Self, w)
  \/ \E w \in core[Self].writes : WriteFailed(Self, w)
  \/ Cleanup(Self)

Spec == Init /\ [][Next]_vars

----------------------------------------------------------------------------
(* SpecTime: the save scheduler of a loaded client as time passes: stuck-lock  *)
(* release and watchdog                                                        *)

\* the core after initialize() has run against a store without a document
LoadedCore(c) ==
  [StartPresence(InitCore(c)) EXCEPT
                      !.pc = "ready",
                      !.isLoaded = TRUE,
                      !.hasLoadedInitialDataRef = TRUE,
                      !.canvasPollRef = TRUE,
                      !.flushPendingSaveRef = TRUE]

\* the batches of SpecTime: the user draws one element and removes it
TimeEdits(scene, c) ==
  {scene} \cup Created(scene, c, {"e1"}, {None}) \cup Removed(scene)

InitTime ==
  /\ core = [c \in {Self} |-> LoadedCore(c)]
  /\ store = NoDocument

NextTime ==
  \/ \E elements \in TimeEdits(core[Self].scene, Self) : OnChange(Self, elements)
  \/ DebounceTimerFired(Self)
  \/ HandleVisibilityChange(Self)
  \/ HandlePageHide(Self)
  \/ SaveChanges(Self)
  \/ Cleanup(Self)
  \/ \E w \in core[Self].writes : WriteSucceeded(Self, w)
  \/ \E w \in core[Self].writes : WriteFailed(Self, w)
  \/ PostSaveTimerFired(Self)
  \/ FetchResolved(Self)
  \/ GuardTimerFired(Self)
  \/ WatchdogFired(Self)
  \/ AdvanceTime(Self)

SpecTime == InitTime /\ [][NextTime]_vars

\* SpecAbandon: SpecTime with the abandoned writes marked
InitAbandon ==
  /\ core = [c \in {Self} |-> [LoadedCore(c) EXCEPT !.traced = TRUE]]
  /\ store = NoDocument

SpecAbandon == InitAbandon /\ [][NextTime]_vars

----------------------------------------------------------------------------
(* SpecOwn: the ownership enforcement of a client that has loaded a document  *)
(* written by its peers, up to the write its debounce timer composes          *)

\* the other client
Peer == "B"

\* customData.createdBy of an element of a stored document
Owners == {None} \cup Clients

\* an element of a stored document: drawn by the peer, owned by `by` (by no
\* one for a legacy element), live or marked deleted
StoredElement(id, by, isDeleted) ==
  [NewElement(id, Peer, by) EXCEPT !.isDeleted = isDeleted]

\* the documents the client may find at canvas/scene when it loads
OwnDocuments ==
  {<<>>}
  \cup {<<StoredElement("e1", o1, d1)>> : o1 \in Owners, d1 \in BOOLEAN}
  \cup {<<StoredElement("e1", by, FALSE), StoredElement("e2", by, FALSE)>> :
          by \in Owners}

\* the core after initialize() has run against a store holding `elements`,
\* and the guards of the initial fetch have been released
LoadedFrom(c, elements) ==
  [LoadedCore(c) EXCEPT !.scene = elements,
                        !.previousSceneRef = cloneElements(elements),
                        !.previousSceneSet = TRUE]

\* the batches of SpecOwn: the user edits an element, marks it deleted, removes
\* it from the scene, draws e2 or pastes a copy of an element of the peer as e2
OwnEdits(scene, c) ==
  Modified(scene, c) \cup SoftDeleted(scene, c) \cup Removed(scene)
    \cup Created(scene, c, {"e2"}, {None, Peer})

InitOwn ==
  \E elements \in OwnDocuments :
    /\ core = [c \in {Self} |-> LoadedFrom(c, elements)]
    /\ store = Document(sceneJSON(elements), Peer)

NextOwn ==
  \/ \E elements \in OwnEdits(core[Self].scene, Self) : OnChange(Self, elements)
  \/ \E adminMap \in {{}, {Self}} : OnAdminsValue(Self, adminMap)
  \/ DebounceTimerFired(Self)

SpecOwn == InitOwn /\ [][NextOwn]_vars

----------------------------------------------------------------------------
(* SpecMerge: the remote ingest of a client whose peer keeps writing          *)

\* the documents the peer may write over a document: it edits one element
PeerDocuments(elements) == Modified(elements, Peer)

\* the batches of SpecMerge: the user edits an element, or draws e1
MergeEdits(scene, c) ==
  Modified(scene, c) \cup Created(scene, c, {"e1"}, {None})

InitMerge ==
  \E elements \in {<<>>} \cup {<<StoredElement("e1", by, FALSE)>> : by \in Owners} :
    /\ core = [c \in {Self} |-> LoadedFrom(c, elements)]
    /\ store = Document(sceneJSON(elements), Peer)

NextMerge ==
  \/ \E elements \in MergeEdits(core[Self].scene, Self) : OnChange(Self, elements)
  \/ \E elements \in PeerDocuments(SceneElements(store)) : PeerWrite(Peer, elements)
  \/ PollTick(Self)
  \/ FetchResolved(Self)
  \/ GuardTimerFired(Self)
  \/ DebounceTimerFired(Self)
  \/ \E w \in core[Self].writes : WriteSucceeded(Self, w)
  \/ PostSaveTimerFired(Self)

SpecMerge == InitMerge /\ [][NextMerge]_vars

----------------------------------------------------------------------------
(* SpecTwo: two clients on an empty canvas; each draws one element before    *)
(* either has started a save, and no write fails                              *)

\* the element a client draws
OwnId(c) == IF c = "A" THEN "e1" ELSE "e2"

\* no client has started a save yet: every drawing falls into the debounce
\* window of the other's
NoSaveStarted ==
  /\ ~store.exists
  /\ \A c \in DOMAIN core : core[c].writes = {} /\ ~core[c].isSavingRef

Draw(c) ==
  /\ NoSaveStarted
  /\ core[c].ingested = <<>>
  /\ \E elements \in Created(core[c].scene, c, {OwnId(c)}, {None}) : OnChange(c, elements)

InitTwo ==
  /\ core = [c \in Clients |-> LoadedCore(c)]
  /\ store = NoDocument

NextTwo ==
  \E c \in Clients :
    \/ Draw(c)
    \/ DebounceTimerFired(c)
    \/ \E w \in core[c].writes : WriteSucceeded(c, w)
    \/ PostSaveTimerFired(c)
    \/ PollTick(c)
    \/ FetchResolved(c)
    \/ GuardTimerFired(c)

SpecTwo == InitTwo /\ [][NextTwo]_vars

----------------------------------------------------------------------------
(* SpecRetry: the save scheduler of a loaded client whose timers keep firing  *)
(* and whose store calls keep settling; the user edits when they like         *)

NextRetry ==
  \/ \E elements \in SchedulerEdits(core[Self].scene, Self) : OnChange(Self, elements)
  \/ DebounceTimerFired(Self)
  \/ PollTick(Self)
  \/ FetchResolved(Self)
  \/ GuardTimerFired(Self)
  \/ PostSaveTimerFired(Self)
  \/ \E w \in core[Self].writes : WriteSucceeded(Self, w)
  \/ \E w \in core[Self].writes : WriteFailed(Self, w)

\* an armed timer fires, a get() in flight resolves, and a write that keeps
\* being retried succeeds at last
FairRetry ==
  /\ WF_vars(DebounceTimerFired(Self))
  /\ WF_vars(PollTick(Self))
  /\ WF_vars(FetchResolved(Self))
  /\ WF_vars(GuardTimerFired(Self))
  /\ WF_vars(PostSaveTimerFired(Self))
  /\ SF_vars(\E w \in core[Self].writes : WriteSucceeded(Self, w))

SpecRetry == InitTime /\ [][NextRetry]_vars /\ FairRetry

----------------------------------------------------------------------------
(* SpecRefresh: every way a remote snapshot reaches the scene of a client     *)
(* whose peer keeps writing: initial fetch, poll, post-save fetch and manual  *)
(* refresh                                                                    *)

\* the documents the peer may write over a document: it draws e2
RefreshDocuments(elements) ==
  Created(elements, Peer, {"e2"}, {None})

InitRefresh ==
  /\ core = [c \in {Self} |-> InitCore(c)]
  /\ store = Document(sceneJSON(<<StoredElement("e1", Peer, FALSE)>>), Peer)

NextRefresh ==
  \/ Initialize(Self)
  \/ \E elements \in RefreshDocuments(SceneElements(store)) : PeerWrite(Peer, elements)
  \/ PollTick(Self)
  \/ FetchResolved(Self)
  \/ GuardTimerFired(Self)
  \/ DebounceTimerFired(Self)
  \/ \E w \in core[Self].writes : WriteSucceeded(Self, w)
  \/ PostSaveTimerFired(Self)
  \/ RefreshCanvas(Self)
  \/ Rerender(Self)
  \/ RefreshResolved(Self)
  \/ RefreshRejected(Self)

SpecRefresh == InitRefresh /\ [][NextRefresh]_vars

----------------------------------------------------------------------------
(* SpecLoad: the initial load against a store with or without a document,     *)
(* with reads that may fail, and the first changes of the user                 *)

\* the batches of SpecLoad: the user draws e2
LoadEdits(scene, c) ==
  {scene} \cup Created(scene, c, {"e2"}, {None})

InitLoad ==
  /\ core = [c \in {Self} |-> InitCore(c)]
  /\ store \in {NoDocument,
                Document(sceneJSON(<<StoredElement("e1", Peer, FALSE)>>), Peer)}

NextLoad ==
  \/ Initialize(Self)
  \/ FetchResolved(Self)
  \/ FetchRejected(Self)
  \/ PollTick(Self)
  \/ GuardTimerFired(Self)
  \/ \E elements \in LoadEdits(core[Self].scene, Self) : OnChange(Self, elements)
  \/ DebounceTimerFired(Self)
  \/ \E w \in core[Self].writes : WriteSucceeded(Self, w)
  \/ PostSaveTimerFired(Self)

SpecLoad == InitLoad /\ [][NextLoad]_vars

\* SpecView: SpecLoad with a user who changes the canvas background too
ViewBackgrounds == {"white", "grey"}

NextView ==
  \/ NextLoad
  \/ \E colour \in ViewBackgrounds : ChangeView(Self, colour)

SpecView == InitLoad /\ [][NextView]_vars

----------------------------------------------------------------------------
(* SpecHeal: a non-admin that has loaded an element of its peer edits or       *)
(* removes it once and then leaves the canvas alone; the peer keeps editing,   *)
(* the timers keep firing and the store calls settle, the writes with success  *)

\* the batches of SpecHeal: the user edits an element or removes it
HealEdits(scene, c) ==
  Modified(scene, c) \cup Removed(scene)

InitHeal ==
  /\ core = [c \in {Self} |-> LoadedFrom(c, <<StoredElement("e1", Peer, FALSE)>>)]
  /\ store = Document(sceneJSON(<<StoredElement("e1", Peer, FALSE)>>), Peer)

\* the only change of the user: none has been ingested before
FirstChange(c, elements) ==
  /\ core[c].ingested = <<>>
  /\ OnChange(c, elements)

NextHeal ==
  \/ \E elements \in HealEdits(core[Self].scene, Self) : FirstChange(Self, elements)
  \/ \E elements \in PeerDocuments(SceneElements(store)) : PeerWrite(Peer, elements)
  \/ DebounceTimerFired(Self)
  \/ PollTick(Self)
  \/ FetchResolved(Self)
  \/ GuardTimerFired(Self)
  \/ PostSaveTimerFired(Self)
  \/ \E w \in core[Self].writes : WriteSucceeded(Self, w)

\* an armed timer fires, the poll interval keeps ticking, a get() in flight
\* resolves and a write in flight succeeds
FairHeal ==
  /\ WF_vars(DebounceTimerFired(Self))
  /\ WF_vars(PollTick(Self))
  /\ WF_vars(FetchResolved(Self))
  /\ WF_vars(GuardTimerFired(Self))
  /\ WF_vars(PostSaveTimerFired(Self))
  /\ WF_vars(\E w \in core[Self].writes : WriteSucceeded(Self, w))

SpecHeal == InitHeal /\ [][NextHeal]_vars /\ FairHeal

\* SpecDefer: a client that has loaded the peer's document draws when it
\* likes; the timers keep firing and the store calls settle, the writes
\* with success
NextDefer ==
  \/ \E elements \in LoadEdits(core[Self].scene, Self) : OnChange(Self, elements)
  \/ DebounceTimerFired(Self)
  \/ PollTick(Self)
  \/ FetchResolved(Self)
  \/ GuardTimerFired(Self)
  \/ PostSaveTimerFired(Self)
  \/ \E w \in core[Self].writes : WriteSucceeded(Self, w)

SpecDefer == InitHeal /\ [][NextDefer]_vars /\ FairHeal

\* SpecStamp: SpecDefer without its fairness, with a peer that removes its
\* element from the document
NextStamp ==
  \/ NextDefer
  \/ PeerWrite(Peer, <<>>)

SpecStamp == InitHeal /\ [][NextStamp]_vars

----------------------------------------------------------------------------
(* SpecAdmin: a client that starts against the peer's document while the     *)
(* admin set changes; the user edits or removes the elements it has loaded    *)

\* the batches of SpecAdmin
AdminEdits(scene, c) == Modified(scene, c) \cup Removed(scene)

NextAdmin ==
  \/ Initialize(Self)
  \/ FetchResolved(Self)
  \/ GuardTimerFired(Self)
  \/ \E adminMap \in {{}, {Self}} : OnAdminsValue(Self, adminMap)
  \/ \E elements \in AdminEdits(core[Self].scene, Self) : OnChange(Self, elements)
  \/ DebounceTimerFired(Self)
  \/ \E w \in core[Self].writes : WriteSucceeded(Self, w)
  \/ PostSaveTimerFired(Self)

SpecAdmin == InitRefresh /\ [][NextAdmin]_vars

----------------------------------------------------------------------------
(* SpecParse: the load against a store whose document does not parse, until   *)
(* a write of the client or of its peer replaces the document                  *)

InitParse ==
  /\ core = [c \in {Self} |-> InitCore(c)]
  /\ store = CorruptDocument

NextParse ==
  \/ Initialize(Self)
  \/ FetchResolved(Self)
  \/ PollTick(Self)
  \/ GuardTimerFired(Self)
  \/ \E elements \in LoadEdits(core[Self].scene, Self) : OnChange(Self, elements)
  \/ DebounceTimerFired(Self)
  \/ \E w \in core[Self].writes : WriteSucceeded(Self, w)
  \/ PostSaveTimerFired(Self)
  \/ PeerWrite(Peer, <<StoredElement("e1", Peer, FALSE)>>)

SpecParse == InitParse /\ [][NextParse]_vars

----------------------------------------------------------------------------
(* SpecSession: presence, session and teardown of a client whose connection   *)
(* may drop and come back, and whose effect may be cleaned up at any time      *)

InitSession ==
  /\ core = [c \in {Self} |-> InitCore(c)]
  /\ store = NoDocument

NextSession ==
  \/ Initialize(Self)
  \/ FetchResolved(Self)
  \/ PollTick(Self)
  \/ GuardTimerFired(Self)
  \/ \E elements \in LoadEdits(core[Self].scene, Self) : OnChange(Self, elements)
  \/ DebounceTimerFired(Self)
  \/ \E w \in core[Self].writes : WriteSucceeded(Self, w)
  \/ PostSaveTimerFired(Self)
  \/ HeartbeatTick(Self)
  \/ Disconnect(Self)
  \/ Reconnect(Self)
  \/ Cleanup(Self)
  \/ CleanupBeforeReady(Self)

SpecSession == InitSession /\ [][NextSession]_vars

----------------------------------------------------------------------------
(* SpecFiles: the saves of a loaded client that uploads an image and draws     *)

InitFiles ==
  /\ core = [c \in {Self} |-> LoadedCore(c)]
  /\ store = NoDocument

NextFiles ==
  \/ UploadImage(Self, "f1")
  \/ \E elements \in LoadEdits(core[Self].scene, Self) : OnChange(Self, elements)
  \/ DebounceTimerFired(Self)
  \/ \E w \in core[Self].writes : WriteSucceeded(Self, w)
  \/ PostSaveTimerFired(Self)
  \/ PollTick(Self)
  \/ FetchResolved(Self)
  \/ GuardTimerFired(Self)

SpecFiles == InitFiles /\ [][NextFiles]_vars

----------------------------------------------------------------------------
(* Claims about the save scheduler *)

Outstanding(c) == core[c].writes

\* C1 as claimed: in every reachable state at most one store write issued by
\* flushPendingSave is outstanding, stuck-lock release and watchdog expiry
\* included.
C1_AtMostOneWriteOutstanding ==
  \A c \in DOMAIN core : Cardinality(Outstanding(c)) <= 1

\* C1, amended: as long as the lock has not been force-released (by the
\* stuck-lock release of flushPendingSave or by the watchdog), at most one store
\* write is outstanding, and isSavingRef is set while it is.
C1_AtMostOneWriteUnlessForceReleased ==
  \A c \in DOMAIN core :
    ~core[c].forceReleased =>
      /\ Cardinality(Outstanding(c)) <= 1
      /\ Outstanding(c) # {} => core[c].isSavingRef

\* a write is outstanding, a change and a flush request have met the lock,
\* and no force-release has happened
C1_Witness ==
  /\ ~core[Self].forceReleased
  /\ Cardinality(Outstanding(Self)) = 1
  /\ core[Self].needsResaveRef
  /\ core[Self].hasPendingSaveRef
  /\ core[Self].elapsed > 0


\* C3: after a run of N >= 1 ingested changes, each within the debounce
\* interval of the one before, with no save in flight, no forced flush and no
\* remote application in between, no write has been issued while the timer is
\* armed, and the expiry of the timer issues exactly one write, which carries
\* the Local Snapshot the last change produced.
C3_OneWriteAfterQuietRun ==
  [][\A c \in DOMAIN core :
       core[c].quiet > 0 =>
         /\ core[c].debounceSaveTimerRef
         /\ Outstanding(c) = {}
         /\ DebounceTimerFired(c) =>
              \E w \in Outstanding(c)' :
                /\ Outstanding(c)' = {w}
                /\ JSONparse(w.sceneJSON) = core[c].ingested]_vars

\* the debounce timer is armed by a run of two or more changes whose last one
\* changed the Local Snapshot
C3_Witness ==
  /\ core[Self].quiet = 2
  /\ core[Self].debounceSaveTimerRef
  /\ Len(core[Self].ingested) = 1
  /\ core[Self].ingested[1].version = 2

\* a completion of the write w of client c, by success or by failure
Completes(c, w) == WriteSucceeded(c, w) \/ WriteFailed(c, w)

\* C4 as claimed: when a write completes during which one or more changes were
\* ingested, exactly one further write is issued in that same step, and it
\* carries the Local Snapshot as of the completion.
C4_ResaveOnCompletion ==
  [][\A c \in DOMAIN core : \A w \in Outstanding(c) :
       (w.dirty /\ Completes(c, w)) =>
         \E n \in Outstanding(c)' :
           /\ ~n.dirty
           /\ Outstanding(c)' = (Outstanding(c) \ {w}) \cup {n}
           /\ JSONparse(n.sceneJSON) = core[c].previousSceneRef]_vars

\* C9: a poll tick that fires while save-pending is set issues no store read
\* and changes neither the scene, nor the Local Snapshot, nor any flag.
C9_PollSkippedWhilePending ==
  [][\A c \in DOMAIN core :
       (core[c].hasPendingSaveRef /\ PollTick(c)) =>
         /\ core'[c] = core[c]
         /\ store' = store]_vars

\* the poll interval is armed, a save is pending and no fetch is in flight:
\* only the skip keeps the tick from reading the store
C9_Witness ==
  /\ core[Self].canvasPollRef
  /\ core[Self].hasPendingSaveRef
  /\ ~core[Self].isFetchingCanvasRef
  /\ store.exists

----------------------------------------------------------------------------
(* Claims about ownership enforcement *)

\* the entries of a list of elements under one id
Entries(elements, id) ==
  {elements[i] : i \in {j \in 1..Len(elements) : elements[j].id = id}}

\* b is a's element as the user left it: everything but the owner metadata
SameContent(a, b) ==
  /\ a.id = b.id
  /\ a.version = b.version
  /\ a.x = b.x
  /\ a.isDeleted = b.isDeleted

\* the batch `elements` is processed for client c, and the entry p of the
\* Local Snapshot is taken as the batch has it: the edited element replaces
\* it, keeping the owner `by`; an element the batch lacks has no entry left
Accepted(c, elements, p, by) ==
  IF p.id \in Ids(elements)
    THEN \E q \in Entries(core[c].previousSceneRef, p.id)' :
           /\ Entries(core[c].previousSceneRef, p.id)' = {q}
           /\ \E e \in Entries(elements, p.id) : SameContent(e, q)
           /\ q.createdBy = by
    ELSE Entries(core[c].previousSceneRef, p.id)' = {}

\* C2 as claimed: whatever batch handleChange processes for a non-admin
\* identity U, every Local Snapshot entry whose owner is non-empty and
\* different from U is, after the batch, the entry it was before.
C2_ForeignEntriesKept ==
  [][\A c \in DOMAIN core : \A elements \in OwnEdits(core[c].scene, c) :
       (~core[c].isAdminRef /\ OnChange(c, elements)) =>
         \A p \in {core[c].previousSceneRef[i] : i \in 1..Len(core[c].previousSceneRef)} :
           p.createdBy \notin {None, c} =>
             Entries(core[c].previousSceneRef, p.id)' = {p}]_vars

\* C2, amended: whatever batch handleChange processes for a non-admin identity
\* U, every Local Snapshot entry whose owner is non-empty and different from U
\* is unchanged after the batch if it is not marked deleted or the batch
\* carries its id; an entry marked deleted whose id the batch lacks is dropped.
C2_LiveForeignEntriesKept ==
  [][\A c \in DOMAIN core : \A elements \in OwnEdits(core[c].scene, c) :
       (~core[c].isAdminRef /\ OnChange(c, elements)) =>
         \A p \in {core[c].previousSceneRef[i] : i \in 1..Len(core[c].previousSceneRef)} :
           p.createdBy \notin {None, c} =>
             IF p.isDeleted /\ p.id \notin Ids(elements)
               THEN Entries(core[c].previousSceneRef, p.id)' = {}
               ELSE Entries(core[c].previousSceneRef, p.id)' = {p}]_vars

\* a non-admin has edited the peer's e1 and removed the peer's e2 from its
\* scene, and its Local Snapshot holds both as they were loaded
C2_Witness ==
  /\ ~core[Self].isAdminRef
  /\ core[Self].hasPendingSaveRef
  /\ SceneElements(store) = <<StoredElement("e1", Peer, FALSE),
                             StoredElement("e2", Peer, FALSE)>>
  /\ Len(core[Self].scene) = 1
  /\ core[Self].scene[1].id = "e1"
  /\ core[Self].scene[1].x = Self
  /\ core[Self].previousSceneRef = SceneElements(store)

\* C5: every element of a batch whose id has no entry in the Local Snapshot is
\* accepted, and its entry carries the acting identity's id, display name and
\* color as owner, whether the acting identity is an admin or not.
C5_NewElementsStamped ==
  [][\A c \in DOMAIN core : \A elements \in OwnEdits(core[c].scene, c) :
       OnChange(c, elements) =>
         \A i \in 1..Len(elements) :
           elements[i].id \notin Ids(core[c].previousSceneRef) =>
             core[c].previousSceneRef'[i] =
               [elements[i] EXCEPT !.createdBy = c,
                                   !.createdByUsername = Username(c),
                                   !.createdByColor = Color(c)]]_vars

\* the user has pasted a copy of an element of the peer as e2, which the
\* loaded document lacks: the Local Snapshot holds it as the user's own
C5_Witness ==
  /\ "e2" \notin Ids(SceneElements(store))
  /\ \E e \in Entries(core[Self].scene, "e2") : e.createdBy = Peer
  /\ \E q \in Entries(core[Self].previousSceneRef, "e2") :
       /\ q.createdBy = Self
       /\ q.createdByUsername = Username(Self)
       /\ q.createdByColor = Color(Self)

\* C6: when the acting identity is an admin as a batch is processed, every edit
\* and every deletion of an element owned by another identity is accepted: the
\* Local Snapshot holds the edited version and not the deleted element, and a
\* write composed from then on carries the Local Snapshot.
C6_AdminOverride ==
  [][\A c \in DOMAIN core :
       /\ \A elements \in OwnEdits(core[c].scene, c) :
            (core[c].isAdminRef /\ OnChange(c, elements)) =>
              \A p \in {core[c].previousSceneRef[i] : i \in 1..Len(core[c].previousSceneRef)} :
                p.createdBy \notin {None, c} => Accepted(c, elements, p, p.createdBy)
       /\ \A w \in Outstanding(c)' \ Outstanding(c) :
            JSONparse(w.sceneJSON) = core[c].previousSceneRef]_vars

\* an admin has edited the peer's e1 and removed the peer's e2, and the write
\* outstanding carries the edited e1 alone
C6_Witness ==
  /\ core[Self].isAdminRef
  /\ SceneElements(store) = <<StoredElement("e1", Peer, FALSE),
                             StoredElement("e2", Peer, FALSE)>>
  /\ core[Self].previousSceneRef =
       <<[StoredElement("e1", Peer, FALSE) EXCEPT !.version = 2, !.x = Self]>>
  /\ \E w \in Outstanding(Self) : JSONparse(w.sceneJSON) = core[Self].previousSceneRef

\* C7: an element whose Local Snapshot entry has no owner metadata is accepted
\* when any identity, admin or not, edits it or deletes it.
C7_UnownedEditable ==
  [][\A c \in DOMAIN core : \A elements \in OwnEdits(core[c].scene, c) :
       OnChange(c, elements) =>
         \A p \in {core[c].previousSceneRef[i] : i \in 1..Len(core[c].previousSceneRef)} :
           p.createdBy = None => Accepted(c, elements, p, c)]_vars

\* a non-admin has edited the unowned e1 and removed the unowned e2
C7_Witness ==
  /\ ~core[Self].isAdminRef
  /\ core[Self].adminMapRef = {}
  /\ SceneElements(store) = <<StoredElement("e1", None, FALSE),
                             StoredElement("e2", None, FALSE)>>
  /\ Len(core[Self].previousSceneRef) = 1
  /\ SameContent(core[Self].previousSceneRef[1],
                 [StoredElement("e1", None, FALSE) EXCEPT !.version = 2, !.x = Self])

----------------------------------------------------------------------------
(* Claims about remote ingest *)

\* every client has drawn its element, and nothing of any client is pending,
\* armed or in flight
Settled ==
  \A c \in DOMAIN core :
    /\ core[c].ingested # <<>>
    /\ ~core[c].hasPendingSaveRef
    /\ ~core[c].needsResaveRef
    /\ ~core[c].isSavingRef
    /\ ~core[c].debounceSaveTimerRef
    /\ Outstanding(c) = {}
    /\ core[c].postSaveTimers = 0
    /\ ~core[c].isFetchingCanvasRef
    /\ core[c].guardTimers = 0

\* C8 as claimed: two clients have each drawn one element before either
\* started a save, and no write fails; once the saves and the fetches of both
\* have settled, the store document holds both elements, each owned by the
\* client that drew it.
C8_BothElementsStored ==
  Settled =>
    \A c \in DOMAIN core :
      \E e \in Entries(SceneElements(store), OwnId(c)) : e.createdBy = c

\* both clients have drawn and both have settled
C8_Witness == Settled /\ DOMAIN core = Clients

----------------------------------------------------------------------------
(* Claims about failures and recovery *)

\* C11 as claimed: when a store write is rejected, save-pending is set again,
\* the in-flight lock is released, lastSavedAt is not updated and the Local
\* Snapshot is left as it was.
C11_FailureLeavesPendingUnlocked ==
  [][\A c \in DOMAIN core : \A w \in Outstanding(c) :
       WriteFailed(c, w) =>
         /\ core[c].hasPendingSaveRef'
         /\ ~core[c].isSavingRef'
         /\ core[c].lastSavedAt' = core[c].lastSavedAt
         /\ core[c].previousSceneRef' = core[c].previousSceneRef]_vars

\* C11, amended: when a store write is rejected, lastSavedAt is not updated and
\* the Local Snapshot is left as it was.  If no flush was deferred during the
\* write, or a remote snapshot is being applied, save-pending is set again and
\* the lock is released; otherwise a new write carrying the Local Snapshot is
\* issued in the same step, which takes the lock and clears save-pending.
\* Afterwards a local change is ingested, and a forced flush made while the
\* lock is free and no remote snapshot is being applied issues a write.
C11_FailureRemarksPending ==
  [][\A c \in DOMAIN core : \A w \in Outstanding(c) :
       (w \notin Outstanding(c)' /\ WriteFailed(c, w)) =>
         /\ core[c].lastSavedAt' = core[c].lastSavedAt
         /\ core[c].previousSceneRef' = core[c].previousSceneRef
         /\ IF core[c].needsResaveRef /\ ~core[c].isApplyingSceneUpdateRef
              THEN /\ ~core[c].hasPendingSaveRef'
                   /\ core[c].isSavingRef'
                   /\ \E n \in Outstanding(c)' :
                        /\ Outstanding(c)' = (Outstanding(c) \ {w}) \cup {n}
                        /\ JSONparse(n.sceneJSON) = core[c].previousSceneRef
              ELSE /\ core[c].hasPendingSaveRef'
                   /\ ~core[c].isSavingRef'
                   /\ Outstanding(c)' = Outstanding(c) \ {w}
         /\ ~core[c].isApplyingSceneUpdateRef' =>
              handleChange(core[c], core[c].scene)'.hasPendingSaveRef
         /\ (/\ core[c].hasPendingSaveRef'
             /\ ~core[c].isSavingRef'
             /\ ~core[c].isApplyingSceneUpdateRef') =>
              ForcedFlush(core[c])'.writes # core[c].writes']_vars

\* the only write ever issued has been rejected: the drawing is pending again,
\* the lock is free and nothing was ever saved
C11_Witness ==
  /\ core[Self].hasPendingSaveRef
  /\ ~core[Self].isSavingRef
  /\ ~core[Self].debounceSaveTimerRef
  /\ ~core[Self].forceReleased
  /\ Outstanding(Self) = {}
  /\ core[Self].lastSavedAt = 0
  /\ ~store.exists
  /\ core[Self].previousSceneRef # <<>>
  /\ core[Self].pc = "ready"

\* the only write issued so far has been rejected: the drawing is unsaved, the
\* lock is free, no timer that saves is armed and no store call is in flight
FailedUnsaved(c) ==
  /\ core[c].hasPendingSaveRef
  /\ ~core[c].isSavingRef
  /\ ~core[c].debounceSaveTimerRef
  /\ Outstanding(c) = {}
  /\ core[c].lastSavedAt = 0
  /\ ~store.exists
  /\ core[c].previousSceneRef # <<>>

\* C12 as claimed: after a store write has failed, a retry write carrying the
\* unsaved Local Snapshot is eventually issued by the core's own timers, with
\* no further user edit and no forced flush.
C12_RetryEventuallyIssued ==
  \A c \in {Self} :
    [](FailedUnsaved(c) =>
         <>(\E w \in Outstanding(c) : JSONparse(w.sceneJSON) = core[c].previousSceneRef))

\* a write has failed and nothing has been saved
C12_Witness == FailedUnsaved(Self)

\* C13 as claimed: from the moment a local change is ingested until the write
\* that carries it has succeeded, save-pending is set: while a write is
\* outstanding, save-pending is set.
C13_PendingUntilSuccess ==
  \A c \in DOMAIN core : Outstanding(c) # {} => core[c].hasPendingSaveRef

\* a write carrying the user's drawing is outstanding and the poll is armed
C13_Witness ==
  /\ core[Self].canvasPollRef
  /\ \E w \in Outstanding(Self) : w.sceneJSON # <<>>

----------------------------------------------------------------------------
(* Claims about remote application and initial load *)

\* the fetch of client c completes and applies the stored document
FetchApplies(c) ==
  /\ store.exists
  /\ ~core[c].isSyncingRef
  /\ FetchResolved(c)

\* the manual refresh of client c completes and applies the stored document
RefreshApplies(c) ==
  /\ store.exists
  /\ RefreshResolved(c)

\* C14 as claimed: every operation that applies a remote snapshot to the scene
\* (initial fetch, poll, post-save fetch, manual refresh) sets the re-entrancy
\* guard, so that the change notification is not ingested as a user edit (the
\* pending flag and the debounce timer are as they were), and leaves the Local
\* Snapshot equal to the element list it rendered.
C14_RemoteApplicationGuarded ==
  [][\A c \in DOMAIN core :
       (FetchApplies(c) \/ RefreshApplies(c)) =>
         /\ core[c].isApplyingSceneUpdateRef'
         /\ core[c].previousSceneRef' = core[c].scene'
         /\ core[c].hasPendingSaveRef' = core[c].hasPendingSaveRef
         /\ core[c].debounceSaveTimerRef' = core[c].debounceSaveTimerRef]_vars

\* a manual refresh is about to complete on a loaded, idle client while the
\* store holds an element of the peer that the Local Snapshot lacks
C14_Witness ==
  /\ core[Self].refreshReads > 0
  /\ core[Self].pc = "ready"
  /\ ~core[Self].isApplyingSceneUpdateRef
  /\ ~core[Self].hasPendingSaveRef
  /\ "e2" \in Ids(SceneElements(store))
  /\ "e2" \notin Ids(core[Self].previousSceneRef)

\* the change notification of client c is taken in as a user edit
Ingests(c) ==
  /\ core[c].hasPendingSaveRef'
  /\ core[c].debounceSaveTimerRef'
  /\ core[c].previousSceneSet'
  /\ core[c].previousSceneRef' =
       cloneElements(AuthorizedElements(core[c].scene',
                                        IF core[c].previousSceneSet
                                          THEN core[c].previousSceneRef ELSE <<>>,
                                        core[c].userId, core[c].isAdminRef))

\* C15: the first fetch whose read resolves marks the initial load complete,
\* whether the store holds a document or not, and from then on a change
\* notification that arrives while no remote scene is being applied is ingested;
\* until then none is.
C15_FirstFetchCompletesLoad ==
  [][\A c \in DOMAIN core :
       /\ (FetchResolved(c) /\ ~core[c].hasLoadedInitialDataRef) =>
            (core[c].isLoaded' /\ core[c].hasLoadedInitialDataRef')
       /\ (\E elements \in LoadEdits(core[c].scene, c) : OnChange(c, elements)) =>
            IF core[c].isLoaded /\ ~core[c].isApplyingSceneUpdateRef
              THEN Ingests(c)
              ELSE \/ core[c].isLoaded
                   \/ /\ core[c].hasPendingSaveRef' = core[c].hasPendingSaveRef
                      /\ core[c].debounceSaveTimerRef' = core[c].debounceSaveTimerRef
                      /\ core[c].previousSceneRef' = core[c].previousSceneRef
                      /\ core[c].writes' = core[c].writes]_vars

\* the load completed against a store without a document and the user's first
\* element has been ingested
C15_Witness ==
  /\ ~store.exists
  /\ core[Self].isLoaded
  /\ core[Self].hasPendingSaveRef
  /\ Ids(core[Self].previousSceneRef) = {"e2"}

----------------------------------------------------------------------------
(* Claims about forced flushes *)

\* what a forced flush leaves of the save state of r in q
SameSaveState(r, q) ==
  /\ q.writes = r.writes
  /\ q.isSavingRef = r.isSavingRef
  /\ q.hasPendingSaveRef = r.hasPendingSaveRef
  /\ q.needsResaveRef = r.needsResaveRef
  /\ q.debounceSaveTimerRef = r.debounceSaveTimerRef
  /\ q.previousSceneRef = r.previousSceneRef
  /\ q.watchdog = r.watchdog

\* C16: a forced flush (manual save, visibility hidden, pagehide/beforeunload)
\* invoked when neither save-pending nor needs-resave is set issues no write and
\* leaves the in-flight lock, the pending flags, the debounce timer and the
\* Local Snapshot as they were.
C16_ForcedFlushNoOp ==
  \A c \in DOMAIN core :
    (~core[c].hasPendingSaveRef /\ ~core[c].needsResaveRef) =>
      SameSaveState(core[c], ForcedFlush(core[c]))

\* nothing is pending while a save has held the lock for longer than the
\* stuck threshold, and the manual save can be requested
C16_Witness ==
  /\ ~core[Self].hasPendingSaveRef
  /\ ~core[Self].needsResaveRef
  /\ core[Self].isSavingRef
  /\ core[Self].elapsed > STUCK_THRESHOLD
  /\ core[Self].flushPendingSaveRef
  /\ ENABLED SaveChanges(Self)

\* the page of client c becomes hidden or is unloaded, or its core is torn down
Suspends(c) ==
  \/ HandleVisibilityChange(c)
  \/ HandlePageHide(c)
  \/ Cleanup(c)

\* C17 as claimed: when the page becomes hidden or is unloaded, or the core is
\* torn down, while save-pending is set and no save is in flight, a write
\* carrying the current Local Snapshot is issued in that step and the debounce
\* timer is no longer armed.
C17_SuspendFlushesAtOnce ==
  [][\A c \in DOMAIN core :
       (Suspends(c) /\ core[c].hasPendingSaveRef /\ ~core[c].isSavingRef) =>
         /\ \E w \in core[c].writes' \ core[c].writes :
              w.sceneJSON = sceneJSON(core[c].previousSceneRef)
         /\ ~core[c].debounceSaveTimerRef']_vars

\* a change is pending, no save is in flight, and the re-entrancy guard of a
\* remote application is still set
C17_Witness ==
  /\ core[Self].pc = "ready"
  /\ core[Self].hasPendingSaveRef
  /\ ~core[Self].isSavingRef
  /\ core[Self].isApplyingSceneUpdateRef
  /\ core[Self].debounceSaveTimerRef

----------------------------------------------------------------------------
(* Claims about blocked edits and deletions *)

\* C18: handleChange never calls updateScene, also when it blocks an edit or a
\* deletion: the scene stays the batch the user produced, and of the core only
\* the Local Snapshot, the captured view state, the pending flags and the
\* debounce timer change (the history fields follow them).
C18_IngestLeavesScene ==
  [][\A c \in DOMAIN core : \A elements \in OwnEdits(core[c].scene, c) :
       OnChange(c, elements) =>
         core[c]' = [core[c] EXCEPT
                       !.scene = elements,
                       !.previousSceneRef = core[c].previousSceneRef',
                       !.previousSceneSet = core[c].previousSceneSet',
                       !.lastAppStateRef = core[c].appState,
                       !.hasPendingSaveRef = core[c].hasPendingSaveRef',
                       !.needsResaveRef = core[c].needsResaveRef',
                       !.debounceSaveTimerRef = core[c].debounceSaveTimerRef',
                       !.debounceTimers = core[c].debounceTimers',
                       !.quiet = core[c].quiet',
                       !.ingested = core[c].ingested',
                       !.writes = {[w EXCEPT !.dirty = TRUE] : w \in @}]]_vars

\* a non-admin has edited the peer's e1, the edit was blocked, and the scene
\* still shows the edit
C18_Witness ==
  /\ ~core[Self].isAdminRef
  /\ core[Self].hasPendingSaveRef
  /\ Len(core[Self].scene) >= 1
  /\ Len(core[Self].previousSceneRef) >= 1
  /\ core[Self].scene[1].id = "e1"
  /\ core[Self].scene[1].createdBy = Peer
  /\ core[Self].scene[1].x = Self
  /\ core[Self].previousSceneRef[1].id = "e1"
  /\ core[Self].previousSceneRef[1].x # Self

\* the last batch of non-admin c changed or omitted the element `id` of another
\* identity, and the Local Snapshot kept the element as it was
BlockedOn(c, id) ==
  /\ ~core[c].isAdminRef
  /\ core[c].hasPendingSaveRef
  /\ ~core[c].isApplyingSceneUpdateRef
  /\ core[c].ingested = core[c].previousSceneRef
  /\ \E p \in Entries(core[c].previousSceneRef, id) :
       /\ p.createdBy \notin {None, c}
       /\ ~p.isDeleted
       /\ \A e \in Entries(core[c].scene, id) : ~SameContent(e, p)

\* the scene of c shows the element `id` as the stored document has it
ShowsPersisted(c, id) ==
  /\ store.exists
  /\ \E e \in Entries(core[c].scene, id) :
       \E p \in Entries(SceneElements(store), id) : SameContent(e, p)

\* C19 as claimed: after the edit or deletion of another identity's element by
\* a non-admin has been blocked, the scene eventually shows that element again
\* as the store holds it.
C19_BlockedChangeHeals ==
  \A c \in {Self} : \A id \in {"e1"} :
    [](BlockedOn(c, id) => <>ShowsPersisted(c, id))

\* the non-admin has removed the peer's e1 from its scene and the removal has
\* been blocked
C19_Witness ==
  /\ BlockedOn(Self, "e1")
  /\ core[Self].scene = <<>>

\* C20 as claimed: when the batch of a non-admin omits an element that another
\* identity owns and that is not marked deleted, the element stands in the new
\* Local Snapshot at the index it had in the previous one.
C20_BlockedDeletionKeepsIndex ==
  [][\A c \in DOMAIN core : \A elements \in OwnEdits(core[c].scene, c) :
       (OnChange(c, elements) /\ ~core[c].isAdminRef) =>
         \A i \in 1..Len(core[c].previousSceneRef) :
           LET p == core[c].previousSceneRef[i]
           IN  (p.id \notin Ids(elements) /\ ~p.isDeleted
                  /\ p.createdBy \notin {None, c}) =>
                 /\ i <= Len(core[c].previousSceneRef')
                 /\ core[c].previousSceneRef'[i].id = p.id]_vars

\* a non-admin has removed the peer's e1, the first of two elements, from its
\* scene, and the Local Snapshot holds e1 after e2
C20_Witness ==
  /\ ~core[Self].isAdminRef
  /\ core[Self].adminMapRef = {}
  /\ SceneElements(store) = <<StoredElement("e1", Peer, FALSE),
                             StoredElement("e2", Peer, FALSE)>>
  /\ Ids(core[Self].scene) = {"e2"}
  /\ Len(core[Self].previousSceneRef) = 2
  /\ core[Self].previousSceneRef[1].id = "e2"
  /\ core[Self].previousSceneRef[2].id = "e1"

----------------------------------------------------------------------------
(* Claims about merging, parsing and the bookkeeping around a save *)

\* the fetch of client c completes under a pending save and merges
FetchMerges(c) ==
  /\ core[c].hasPendingSaveRef
  /\ FetchApplies(c)

FetchFailsToParse(c) ==
  /\ store.exists
  /\ ~Parses(store.sceneJSON)
  /\ ~core[c].isSyncingRef
  /\ FetchResolved(c)

\* C22 as claimed: when the fetched document cannot be parsed, the guards and
\* the fetch lock are released, the poll interval stays armed once armed, and
\* the initial load is marked complete.
C22_ParseFailureUnblocks ==
  [][\A c \in DOMAIN core :
       FetchFailsToParse(c) =>
         /\ ~core[c].isFetchingCanvasRef'
         /\ ~core[c].isSyncingRef'
         /\ ~core[c].isApplyingSceneUpdateRef'
         /\ core[c].canvasPollRef'
         /\ core[c].hasLoadedInitialDataRef'
         /\ core[c].isLoaded']_vars

\* the initial fetch has ended on a document that does not parse
C22_Witness ==
  /\ core[Self].pc = "ready"
  /\ store = CorruptDocument
  /\ core[Self].hasLoadedInitialDataRef
  /\ ~core[Self].isFetchingCanvasRef

----------------------------------------------------------------------------
(* Claims about presence, session and teardown *)

\* C23 as claimed: when the connection of a client that has completed its
\* presence setup is lost without a teardown, the store no longer holds its
\* presence record: the operation registered with onDisconnect() removes it.
C23_DisconnectRemovesPresence ==
  [][\A c \in DOMAIN core :
       (Disconnect(c) /\ core[c].presenceRefRef) => ~core[c].presence']_vars

\* the client has set up its presence and has lost its connection
C23_Witness ==
  /\ core[Self].presenceRefRef
  /\ ~core[Self].connected

\* C24 as claimed: the session record is created with a null end time; after
\* the cleanup function has run or the connection has been lost the record is
\* there with an end time; and a record that has an end time keeps it.
C24_SessionEndIsDurable ==
  [][\A c \in DOMAIN core :
       /\ Initialize(c) => core[c].session' = "open"
       /\ (Cleanup(c) \/ Disconnect(c)) =>
            core[c].session' = "ended"
       /\ core[c].session = "ended" => core[c].session' = "ended"]_vars

\* the session has been given an end time by the loss of the connection and
\* the heartbeat interval of the client is still armed
C24_Witness ==
  /\ core[Self].session = "ended"
  /\ core[Self].heartbeatRef
  /\ core[Self].sessionRefRef

\* C25 as claimed: once the cleanup of the effect has run, at whatever point
\* of the initialization, no heartbeat, poll or debounce timer is armed, the
\* change listener and the page listeners are removed, the session has its end
\* time and the presence record is removed.
C25_TeardownLeavesNothing ==
  \A c \in DOMAIN core :
    core[c].unmounted =>
      /\ ~core[c].heartbeatRef
      /\ ~core[c].canvasPollRef
      /\ ~core[c].debounceSaveTimerRef
      /\ core[c].pc # "ready"
      /\ core[c].session = "ended"
      /\ ~core[c].presence

\* the cleanup of the effect has run while initialize() was awaiting the
\* initial fetch, and initialize() has gone on to its end
C25_Witness ==
  /\ core[Self].unmounted
  /\ core[Self].pc = "ready"
  /\ core[Self].connected

----------------------------------------------------------------------------
(* Claims about what a save writes *)

\* C26 as claimed: after the write of a save has succeeded the pending-asset
\* map is empty, so that no descriptor it held is carried into a later write.
C26_PendingAssetsCleared ==
  [][\A c \in DOMAIN core : \A w \in core[c].writes :
       WriteSucceeded(c, w) => core[c].pendingFilesRef' = {}]_vars

\* the write that carried the descriptor of f1 has succeeded and the
\* pending-asset map still holds f1
C26_Witness ==
  /\ "f1" \in FileIds(store.files)
  /\ "f1" \in core[Self].pendingFilesRef
  /\ core[Self].writes = {}

\* a save of client c is triggered: by the debounce timer, by a forced flush or
\* by the cleanup function
SaveTriggered(c) ==
  \/ DebounceTimerFired(c)
  \/ HandleVisibilityChange(c)
  \/ HandlePageHide(c)
  \/ SaveChanges(c)
  \/ Cleanup(c)

\* what a save of client c would write is what the store holds
NothingToWrite(c) ==
  /\ store.exists
  /\ core[c].previousSceneSet
  /\ store.sceneJSON = sceneJSON(core[c].previousSceneRef)
  /\ store.files = filesJSON(core[c].pendingFilesRef)

\* C27 as claimed: when a save is triggered and the state it would write is
\* what the store last held, no write is issued and the lock is not taken.
C27_NoWriteWhenUnchanged ==
  [][\A c \in DOMAIN core :
       (SaveTriggered(c) /\ NothingToWrite(c)) =>
         /\ core[c].writes' \subseteq core[c].writes
         /\ core[c].isSavingRef' = core[c].isSavingRef]_vars

\* a change notification that changed no element has set save-pending and
\* armed the debounce timer while the store holds the Local Snapshot
C27_Witness ==
  /\ NothingToWrite(Self)
  /\ core[Self].hasPendingSaveRef
  /\ core[Self].debounceSaveTimerRef
  /\ ~core[Self].isSavingRef
  /\ core[Self].previousSceneRef # <<>>

\* C28 as claimed: at most one manual refresh of a client is in flight; a
\* refresh requested while one is in flight changes nothing; and when a
\* refresh ends (document applied, no document, unparseable document, failed
\* read) the in-flight marker isRefreshing is cleared.
C28_OneRefreshInFlight ==
  [][\A c \in DOMAIN core :
       /\ core[c].refreshReads' <= 1
       /\ (RefreshCanvas(c) /\ core[c].refreshReads > 0) =>
            core[c]' = core[c]
       /\ (RefreshResolved(c) \/ RefreshRejected(c)) =>
            ~core[c].isRefreshing']_vars

\* a manual refresh is in flight and the refreshCanvas of the last render
\* still sees isRefreshing = false
C28_Witness ==
  /\ core[Self].refreshReads = 1
  /\ core[Self].isRefreshing
  /\ ~core[Self].refreshCanvasSees

\* Excalidraw passes a change notification of client c to handleChange
Notifies(c) ==
  \/ \E elements \in LoadEdits(core[c].scene, c) : OnChange(c, elements)
  \/ \E colour \in ViewBackgrounds : ChangeView(c, colour)

\* C29: a change notification that arrives before the initial hydration has
\* completed, or while isApplyingSceneUpdate is set, leaves the Local Snapshot,
\* the captured view state, the save-pending flag, the needs-resave flag and
\* the debounce timer as they were.
C29_GuardedNotificationIgnored ==
  [][\A c \in DOMAIN core :
       (/\ Notifies(c)
        /\ ~core[c].hasLoadedInitialDataRef \/ core[c].isApplyingSceneUpdateRef) =>
         /\ core[c].previousSceneRef' = core[c].previousSceneRef
         /\ core[c].previousSceneSet' = core[c].previousSceneSet
         /\ core[c].lastAppStateRef' = core[c].lastAppStateRef
         /\ core[c].hasPendingSaveRef' = core[c].hasPendingSaveRef
         /\ core[c].needsResaveRef' = core[c].needsResaveRef
         /\ core[c].debounceSaveTimerRef' = core[c].debounceSaveTimerRef]_vars

\* while a remote scene is being applied the user has drawn e2 and changed the
\* background, and neither has been taken in
C29_Witness ==
  /\ core[Self].isApplyingSceneUpdateRef
  /\ "e2" \in Ids(core[Self].scene)
  /\ "e2" \notin Ids(core[Self].previousSceneRef)
  /\ core[Self].appState = "grey"
  /\ core[Self].lastAppStateRef = None
  /\ ~core[Self].hasPendingSaveRef

\* flushPendingSave is called on client c with a change pending: by a page
\* listener or the teardown, which call it when save-pending is set, or by
\* saveChanges
FlushRequested(c) ==
  \/ /\ core[c].hasPendingSaveRef
     /\ HandleVisibilityChange(c) \/ HandlePageHide(c) \/ Cleanup(c)
  \/ /\ core[c].flushPendingSaveRef
     /\ core[c].hasPendingSaveRef \/ core[c].needsResaveRef
     /\ SaveChanges(c)

\* C30: a flush requested with changes pending while the save in flight is
\* older than the stuck threshold releases the lock and issues the new save in
\* that same call: a further write carrying the Local Snapshot, the lock taken
\* anew and the pending flags consumed.  While the save in flight is not older
\* than the threshold, the request issues no write, leaves the lock to the
\* save in flight and sets needs-resave.
C30_StuckSaveReplaced ==
  [][\A c \in DOMAIN core :
       (core[c].isSavingRef /\ FlushRequested(c)) =>
         IF core[c].elapsed > STUCK_THRESHOLD
           THEN /\ core[c].forceReleased'
                /\ \E w \in core[c].writes' \ core[c].writes :
                     w.sceneJSON = sceneJSON(core[c].previousSceneRef)
                /\ core[c].isSavingRef'
                /\ core[c].elapsed' = 0
                /\ ~core[c].hasPendingSaveRef'
                /\ ~core[c].needsResaveRef'
           ELSE /\ core[c].writes' = core[c].writes
                /\ core[c].isSavingRef'
                /\ core[c].elapsed' = core[c].elapsed
                /\ core[c].needsResaveRef'
                /\ core[c].forceReleased' = core[c].forceReleased]_vars

\* a change is pending while the only save in flight is older than the stuck
\* threshold and its watchdog is not yet due, and a manual save can be made
C30_Witness ==
  /\ core[Self].isSavingRef
  /\ core[Self].elapsed > STUCK_THRESHOLD
  /\ core[Self].elapsed < WATCHDOG_DELAY
  /\ core[Self].hasPendingSaveRef
  /\ ~core[Self].forceReleased
  /\ Cardinality(core[Self].writes) = 1
  /\ ENABLED SaveChanges(Self)

----------------------------------------------------------------------------
(* Claims about the watchdog and abandoned writes *)

\* C31 as claimed: when the watchdog timer of the save holding the lock
\* expires while the write is unresolved, the lock is released and
\* save-pending is set, and if needs-resave was set a new save is started in
\* that step.
C31_WatchdogReleasesLock ==
  [][\A c \in DOMAIN core :
       (core[c].watchdog /\ core[c].isSavingRef /\ WatchdogFired(c)) =>
         IF core[c].needsResaveRef
           THEN /\ core[c].writes' \ core[c].writes # {}
                /\ core[c].isSavingRef'
                /\ core[c].elapsed' = 0
           ELSE /\ ~core[c].isSavingRef'
                /\ core[c].hasPendingSaveRef']_vars

\* the watchdog of an unresolved write has run and the lock is still held by
\* that write
C31_Witness ==
  /\ core[Self].isSavingRef
  /\ ~core[Self].watchdog
  /\ ~core[Self].forceReleased
  /\ core[Self].elapsed >= WATCHDOG_DELAY
  /\ Cardinality(core[Self].writes) = 1

\* C32 as claimed: when a write abandoned by a force-release completes while
\* the write of the newer save is outstanding, the lock stays held and no
\* further write is issued.
C32_LateCompletionKeepsLock ==
  [][\A c \in DOMAIN core : \A w \in core[c].writes :
       (/\ w.abandoned
        /\ core[c].isSavingRef
        /\ \E n \in core[c].writes : ~n.abandoned
        /\ Completes(c, w)) =>
         /\ core[c].isSavingRef'
         /\ core[c].writes' = core[c].writes \ {w}]_vars

\* the stuck-lock release has started a newer save while the abandoned write
\* is outstanding
C32_Witness ==
  /\ core[Self].isSavingRef
  /\ core[Self].forceReleased
  /\ \E w \in core[Self].writes : w.abandoned
  /\ \E n \in core[Self].writes : ~n.abandoned
  /\ core[Self].elapsed = 0

----------------------------------------------------------------------------
(* Claims about deferred saves *)

\* client c has a change to save, no save in flight and no debounce timer armed
AtRest(c) ==
  /\ core[c].hasPendingSaveRef \/ core[c].needsResaveRef
  /\ ~core[c].isSavingRef
  /\ ~core[c].debounceSaveTimerRef

\* C33 as claimed: a save deferred because a remote scene is being applied is
\* carried out after the guard is released, without a further local change or
\* forced flush: the core does not stay forever with save-pending or
\* needs-resave set while no save is in flight and no debounce timer is armed.
C33_DeferredSaveRuns ==
  \A c \in {Self} : []<>~AtRest(c)

\* the save of the debounce timer was deferred, the guard has been released
\* and nothing is armed that would save
C33_Witness ==
  /\ AtRest(Self)
  /\ core[Self].needsResaveRef
  /\ ~core[Self].isApplyingSceneUpdateRef
  /\ core[Self].guardTimers = 0
  /\ "e2" \in Ids(core[Self].previousSceneRef)

----------------------------------------------------------------------------
(* Claims about local edits under remote application *)

\* the stored document holds the element p as the user left it
Persisted(p) ==
  /\ store.exists
  /\ \E q \in Entries(SceneElements(store), p.id) : SameContent(p, q)

\* the entries of the Local Snapshot of c that a local batch put there and
\* that no write has brought to the store
Unsaved(c) ==
  {p \in Entries(core[c].previousSceneRef, "e1") :
     /\ \E e \in Entries(core[c].ingested, "e1") : SameContent(p, e)
     /\ ~Persisted(p)}

\* C34 as claimed: a remote application (initial fetch, poll, post-save
\* fetch) neither replaces nor removes an element version that a local batch
\* put into the Local Snapshot and that no successful write has carried.
C34_UnsavedEditSurvivesFetch ==
  [][\A c \in DOMAIN core :
       FetchResolved(c) =>
         \A p \in Unsaved(c) :
           \E q \in Entries(core[c].previousSceneRef', "e1") : SameContent(p, q)]_vars

\* the write carrying the user's second version of e1 is in flight, the store
\* holds the first, and a poll has its read in flight
C34_Witness ==
  /\ Unsaved(Self) # {}
  /\ store.exists
  /\ Outstanding(Self) # {}
  /\ ~core[Self].hasPendingSaveRef
  /\ core[Self].isFetchingCanvasRef
  /\ core[Self].fetchReason = "poll"

\* the element list holds an element of another identity as client c has
\* edited it (x records who edited an element last)
HoldsForeignEdit(elements, c) ==
  \E i \in 1..Len(elements) :
    /\ elements[i].createdBy \notin {None, c}
    /\ elements[i].x = c

\* C35 as claimed: whatever the interleaving of a non-admin's batches with
\* fetches that merge, neither the Local Snapshot nor a write composed from
\* it holds an element of another identity in a version this client made.
C35_MergeKeepsEnforcement ==
  \A c \in DOMAIN core :
    ~core[c].isAdminRef =>
      /\ ~HoldsForeignEdit(core[c].previousSceneRef, c)
      /\ \A w \in core[c].writes : ~HoldsForeignEdit(JSONparse(w.sceneJSON), c)

\* the non-admin's edit of the peer's e1 has been blocked: the scene shows
\* it, the Local Snapshot does not, and a fetch that will merge is in flight
C35_Witness ==
  /\ ~core[Self].isAdminRef
  /\ HoldsForeignEdit(core[Self].scene, Self)
  /\ ~HoldsForeignEdit(core[Self].previousSceneRef, Self)
  /\ core[Self].hasPendingSaveRef
  /\ core[Self].isFetchingCanvasRef

\* the owner ids client c knows for the element `id`: those of its Local
\* Snapshot and of the stored document
KnownOwners(c, id) ==
  {p.createdBy : p \in Entries(core[c].previousSceneRef, id)
                        \cup Entries(SceneElements(store), id)} \ {None}

\* C36 as claimed: once an element has an owner id, in the Local Snapshot or
\* in the stored document, no step of the client puts it into the Local
\* Snapshot or into a write with another owner id.
C36_OwnerIdIsKept ==
  [][\A c \in DOMAIN core : \A id \in {"e1", "e2"} :
       KnownOwners(c, id) # {} =>
         /\ \A q \in Entries(core[c].previousSceneRef', id) :
              q.createdBy \in KnownOwners(c, id) \cup {None}
         /\ \A w \in core[c].writes' \ core[c].writes :
              \A q \in Entries(JSONparse(w.sceneJSON), id) :
                q.createdBy \in KnownOwners(c, id) \cup {None}]_vars

\* the client shows the peer's e1 and its own unsaved e2, the peer has removed
\* e1 from the document, and a fetch that will merge is in flight
C36_Witness ==
  /\ \E p \in Entries(core[Self].previousSceneRef, "e1") : p.createdBy = Peer
  /\ "e2" \in Ids(core[Self].scene)
  /\ core[Self].hasPendingSaveRef
  /\ core[Self].isFetchingCanvasRef
  /\ store.exists
  /\ SceneElements(store) = <<>>

----------------------------------------------------------------------------
(* Claims about the re-entrancy guard and the debounce timer *)

\* the re-entrancy guard is always cleared again
GuardEventuallyCleared ==
  \A c \in {Self} :
    [](core[c].isApplyingSceneUpdateRef => <>~core[c].isApplyingSceneUpdateRef)

\* C37 as claimed: the guard is held only while the remote application
\* delivers its own notification, so that a change notification of the user
\* that arrives after the initial load, a remote application having finished
\* or none having taken place, is ingested: it updates the Local Snapshot and
\* sets save-pending.
C37_UserChangeNeverDropped ==
  [][\A c \in DOMAIN core :
       (/\ core[c].hasLoadedInitialDataRef
        /\ \E elements \in LoadEdits(core[c].scene, c) : OnChange(c, elements)) =>
         Ingests(c)]_vars

\* the user drew e2 within the 500 ms after a remote application; the guard
\* has been released since, and the drawing is neither in the Local Snapshot
\* nor pending
C37_Witness ==
  /\ "e2" \in Ids(core[Self].scene)
  /\ "e2" \notin Ids(core[Self].previousSceneRef)
  /\ ~core[Self].isApplyingSceneUpdateRef
  /\ core[Self].guardTimers = 0
  /\ ~core[Self].hasPendingSaveRef
  /\ ~core[Self].isFetchingCanvasRef

\* the writes client c issues in the step
Issued(c) ==
  {w \in core[c].writes' :
     \/ w.id \notin {v.id : v \in core[c].writes}
     \/ \E v \in core[c].writes : v.id = w.id /\ Completes(c, v)}

\* C38: at most one debounce timer is armed, and it is the one the ref holds;
\* a step that ingests a change leaves one armed, a step that starts a save
\* leaves none armed, and the expiry of the timer issues a write only if
\* save-pending was set and no save was in flight.
C38_OneDebounceTimer ==
  [][\A c \in DOMAIN core :
       /\ core[c].debounceTimers' <= 1
       /\ core[c].debounceSaveTimerRef' <=> core[c].debounceTimers' = 1
       /\ Issued(c) # {} => core[c].debounceTimers' = 0
       /\ (DebounceTimerFired(c) /\ Issued(c) # {}) =>
            (core[c].hasPendingSaveRef /\ ~core[c].isSavingRef)]_vars

\* a change was ingested while the timer of an earlier change was armed and a
\* write was in flight: one timer is armed
C38_Witness ==
  /\ core[Self].quiet = 0
  /\ core[Self].debounceTimers = 1
  /\ core[Self].isSavingRef
  /\ core[Self].needsResaveRef
  /\ Outstanding(Self) # {}

----------------------------------------------------------------------------
(* Claims about the admin flag and the teardown *)

\* C39: once the identity is known, isAdminRef says whether the identity's id
\* is in the admin set as last delivered (before, it is unset), and
\* handleChange authorizes each batch it ingests with the membership at that
\* moment: the batches of a revoked admin are checked as a non-admin's.
C39_AdminFollowsSet ==
  [][\A c \in DOMAIN core :
       /\ core[c].isAdminRef' =
            (core[c].pc' # "start" /\ c \in core[c].adminMapRef')
       /\ \A elements \in AdminEdits(core[c].scene, c) :
            (/\ OnChange(c, elements)
             /\ core[c].hasLoadedInitialDataRef
             /\ ~core[c].isApplyingSceneUpdateRef) =>
              core[c].previousSceneRef' =
                cloneElements(AuthorizedElements(elements, core[c].previousSceneRef,
                                                 core[c].userId,
                                                 c \in core[c].adminMapRef))]_vars

\* an admin has edited the peer's e1, has been revoked since, and its removal
\* of e1 has been blocked
C39_Witness ==
  /\ ~core[Self].isAdminRef
  /\ core[Self].adminMapRef = {}
  /\ HoldsForeignEdit(core[Self].previousSceneRef, Self)
  /\ core[Self].scene = <<>>
  /\ core[Self].hasPendingSaveRef

\* C40: once the teardown has run, the core issues no write of the canvas
\* document and applies no update to the scene: a write that completes, a
\* watchdog timer or a post-save fetch timer starts nothing.
C40_QuietAfterTeardown ==
  [][\A c \in DOMAIN core :
       core[c].pc = "tornDown" =>
         /\ Issued(c) = {}
         /\ core[c].guardTimers' <= core[c].guardTimers
         /\ core[c].scene' = core[c].scene]_vars

\* the teardown has run while a write is in flight and a resave is requested
C40_Witness ==
  /\ core[Self].pc = "tornDown"
  /\ core[Self].writes # {}
  /\ core[Self].needsResaveRef

====
